---- MODULE Spec2Model ----
(***************************************************************************)
(* MiddleMan: the inbound-email ingestion pipeline (POST /email/inbound),  *)
(* the classifier client analyzeWithAI, the result normalizer, the         *)
(* fallback builder and the Postgres message store.                        *)
(*                                                                         *)
(* JavaScript values are modelled as tagged records, strings as sequences  *)
(* of one-character strings, so that truthiness, typeof, Array.isArray,    *)
(* template literals, slice, trim and the regular expressions of the code  *)
(* are computed and not assumed.                                           *)
(***************************************************************************)
EXTENDS Integers, Sequences, FiniteSets, TLC

(***************************************************************************)
(* Bounds of the model.                                                    *)
(***************************************************************************)
\* number of ingestion requests the webhook bridge sends
MaxReq == 1

\* number of ingestion requests in flight at once when the whole server runs
MaxConc == 2

\* number of requests the app sends to GET /messages, POST /reply, POST /compose
MaxApp == 1

(***************************************************************************)
(* JavaScript values.                                                      *)
(***************************************************************************)
Undef == [t |-> "undefined"]

Null == [t |-> "null"]

Bool(b) == [t |-> "boolean", b |-> b]

Num(n) == [t |-> "number", n |-> n]

Str(s) == [t |-> "string", s |-> s]

Arr(a) == [t |-> "array", a |-> a]

Obj(o) == [t |-> "object", o |-> o]

\* the object literal {}
EmptyObj == Obj(<<>>)

\* ToBoolean: the test of `x || y`, `!x`, `x ? a : b`, `if (x)`
Truthy(v) ==
    CASE v.t = "undefined" -> FALSE
      [] v.t = "null"      -> FALSE
      [] v.t = "boolean"   -> v.b
      [] v.t = "number"    -> v.n # 0
      [] v.t = "string"    -> Len(v.s) > 0
      [] OTHER             -> TRUE

\* a || b
Or(a, b) == IF Truthy(a) THEN a ELSE b

\* a ?? b
Nullish(a, b) == IF a.t \in {"undefined", "null"} THEN b ELSE a

\* v?.k : the own property k of a plain object, undefined for null,
\* undefined, primitives and arrays (none of them has one of the keys read)
Get(v, k) == IF v.t = "object" /\ k \in DOMAIN v.o THEN v.o[k] ELSE Undef

\* typeof v === "string"
IsString(v) == v.t = "string"

\* Array.isArray(v)
IsArray(v) == v.t = "array"

\* { ...a, ...b } on records of fields
Spread(a, b) ==
    [k \in DOMAIN a \cup DOMAIN b |-> IF k \in DOMAIN b THEN b[k] ELSE a[k]]

\* the completion of a call: a value returned, or an exception thrown
Ok(v) == [ok |-> TRUE, v |-> v]

Throw(e) == [ok |-> FALSE, e |-> e]

(***************************************************************************)
(* String literals of the program and of the scenarios.                    *)
(***************************************************************************)
sJane ==
    <<"J","a","n","e"," ","<","j","a","n","e","@","x",".","c","o","m",">">>
sPickup ==
    <<"P","i","c","k","u","p">>
sBody ==
    <<"C","a","n"," ","y","o","u"," ","g","e","t"," ","h","i","m"," ","a","t"," ","5","?">>
sEmail ==
    <<"e","m","a","i","l">>
sAIUnavailable ==
    <<"(","A","I"," ","u","n","a","v","a","i","l","a","b","l","e",")"," ","M","e","s","s","a","g","e"," ","r","e","c","e","i","v","e","d",".">>
sSubjectPfx ==
    <<"S","u","b","j","e","c","t",":"," ">>
sSubjectNone ==
    <<"S","u","b","j","e","c","t",":"," ","(","n","o","n","e",")">>
sFromPfx ==
    <<"F","r","o","m",":"," ">>
sFromUnknown ==
    <<"F","r","o","m",":"," ","(","u","n","k","n","o","w","n",")">>
sPreviewPfx ==
    <<"B","o","d","y"," ","p","r","e","v","i","e","w",":"," ">>
sPreviewEmpty ==
    <<"B","o","d","y"," ","p","r","e","v","i","e","w",":"," ","(","e","m","p","t","y",")">>
sNoted ==
    <<"N","o","t","e","d",".">>
sThanks ==
    <<"T","h","a","n","k","s"," ","f","o","r"," ","t","h","e"," ","u","p","d","a","t","e",".">>
sNonJson ==
    <<"n","o","n","_","j","s","o","n","_","o","u","t","p","u","t">>
sAiError ==
    <<"a","i","_","e","r","r","o","r">>
sAiUnavailableTag ==
    <<"a","i","_","u","n","a","v","a","i","l","a","b","l","e">>
sTrue ==
    <<"t","r","u","e">>
sFalse ==
    <<"f","a","l","s","e">>
sNull ==
    <<"n","u","l","l">>
sUndefined ==
    <<"u","n","d","e","f","i","n","e","d">>
sObjectObject ==
    <<"[","o","b","j","e","c","t"," ","O","b","j","e","c","t","]">>
sSummary1 ==
    <<"P","i","c","k","u","p"," ","t","i","m","e"," ","c","h","a","n","g","e"," ","r","e","q","u","e","s","t","e","d">>
sNeeded1 ==
    <<"P","i","c","k","u","p"," ","a","t"," ","5","p","m">>
sCoop1 ==
    <<"Y","e","s",","," ","5","p","m"," ","w","o","r","k","s",".">>
sProse ==
    <<"S","u","r","e",","," ","h","e","r","e","'","s"," ","t","h","e"," ","J","S","O","N",":">>
sInsult ==
    <<"i","n","s","u","l","t">>
sOk ==
    <<"o","k">>
sWarning ==
    <<"A","I"," ","u","n","a","v","a","i","l","a","b","l","e",","," ","s","t","o","r","e","d"," ","f","a","l","l","b","a","c","k">>
sMissingText ==
    <<"M","i","s","s","i","n","g"," ","t","e","x","t"," ","b","o","d","y">>
sServerError ==
    <<"S","e","r","v","e","r"," ","e","r","r","o","r">>
sJeremyAddr ==
    <<"j","e","r","e","m","y","b","n","e","w","m","a","n","@","g","m","a","i","l",".","c","o","m">>
sJklineAddr ==
    <<"j","k","l","i","n","e","n","e","w","m","a","n","@","g","m","a","i","l",".","c","o","m">>
sMikelleAddr ==
    <<"s","o","f","f","e",".","m","i","k","e","l","l","e","@","g","m","a","i","l",".","c","o","m">>
sMissingReply ==
    <<"M","i","s","s","i","n","g"," ","m","e","s","s","a","g","e","I","d"," ","o","r"," ","b","o","d","y">>
sMissingCompose ==
    <<"M","i","s","s","i","n","g"," ","t","o"," ","o","r"," ","b","o","d","y">>
sNotAllowed ==
    <<"R","e","c","i","p","i","e","n","t"," ","n","o","t"," ","a","l","l","o","w","e","d">>
sNotFound ==
    <<"M","e","s","s","a","g","e"," ","n","o","t"," ","f","o","u","n","d">>
sRePfx ==
    <<"R","e",":"," ">>
sRe ==
    <<"R","e",":">>
sNoSubject ==
    <<"(","n","o"," ","s","u","b","j","e","c","t",")">>
sJeremy ==
    <<"J","e","r","e","m","y"," ","<","J","e","r","e","m","y","B","N","e","w","m","a","n","@","G","m","a","i","l",".","c","o","m",">">>
sLate ==
    <<"R","u","n","n","i","n","g"," ","l","a","t","e",".">>
sOnMyWay ==
    <<"O","n"," ","m","y"," ","w","a","y",".">>
sComposeTo ==
    <<" ","J","e","r","e","m","y","B","N","e","w","m","a","n","@","g","m","a","i","l",".","c","o","m"," ">>
sStranger ==
    <<"s","t","r","a","n","g","e","r","@","x",".","c","o","m">>
sHello ==
    <<"H","e","l","l","o">>

sJaneAddr ==
    <<"j","a","n","e","@","x",".","c","o","m">>

sJaneSpaced ==
    <<"J","a","n","e"," ","<"," ","j","a","n","e","@","x",".","c","o","m"," ",">">>

sTwoAddr ==
    <<"j","a","n","e","@","x",".","c","o","m"," ","<","j","e","r","e","m","y","@","y",".","o","r","g",">">>

sProseAddr ==
    <<"w","r","i","t","e"," ","t","o"," ","j","a","n","e","@","x",".","c","o","m"," ","o","r"," ","b","o","b","@","y",".","o","r","g">>

sPadded ==
    <<" "," ","J","a","n","e"," "," ">>

sEmptyPair ==
    <<"<",">"," ","j","a","n","e","@","x",".","c","o","m">>

sUnclosed ==
    <<"J","a","n","e"," ","<","j","a","n","e","@","x",".","c","o","m">>

sNoTld ==
    <<"j","a","n","e","@","x">>

(***************************************************************************)
(* String operations.                                                      *)
(***************************************************************************)
Min(a, b) == IF a < b THEN a ELSE b

DigitChar == <<"0","1","2","3","4","5","6","7","8","9">>

\* Number.prototype.toString of a non-negative integer
RECURSIVE Digits(_)
Digits(n) ==
    IF n < 10 THEN <<DigitChar[n + 1]>>
    ELSE Digits(n \div 10) \o <<DigitChar[(n % 10) + 1]>>

\* ToString, as applied by a template literal `${v}` and by String(v)
RECURSIVE ToStr(_)
ToStr(v) ==
    CASE v.t = "string"    -> v.s
      [] v.t = "number"    -> Digits(v.n)
      [] v.t = "boolean"   -> IF v.b THEN sTrue ELSE sFalse
      [] v.t = "null"      -> sNull
      [] v.t = "undefined" -> sUndefined
      [] v.t = "array"     ->
            IF Len(v.a) = 0 THEN <<>>
            ELSE IF Len(v.a) = 1
                 THEN (IF v.a[1].t \in {"null", "undefined"} THEN <<>> ELSE ToStr(v.a[1]))
                 ELSE ToStr(Arr(<<v.a[1]>>)) \o <<",">> \o ToStr(Arr(Tail(v.a)))
      [] OTHER             -> sObjectObject

WhiteSpace == {" ", "\t", "\n", "\r"}

\* String.prototype.trim
RECURSIVE TrimLeft(_)
TrimLeft(s) ==
    IF Len(s) > 0 /\ s[1] \in WhiteSpace THEN TrimLeft(Tail(s)) ELSE s

RECURSIVE TrimRight(_)
TrimRight(s) ==
    IF Len(s) > 0 /\ s[Len(s)] \in WhiteSpace
    THEN TrimRight(SubSeq(s, 1, Len(s) - 1)) ELSE s

Trim(s) == TrimRight(TrimLeft(s))

UpperCase ==
    <<"A","B","C","D","E","F","G","H","I","J","K","L","M",
      "N","O","P","Q","R","S","T","U","V","W","X","Y","Z">>

LowerCase ==
    <<"a","b","c","d","e","f","g","h","i","j","k","l","m",
      "n","o","p","q","r","s","t","u","v","w","x","y","z">>

\* String.prototype.toLowerCase
ToLowerCase(s) ==
    [i \in 1..Len(s) |->
        IF \E k \in 1..26 : UpperCase[k] = s[i]
        THEN LowerCase[CHOOSE k \in 1..26 : UpperCase[k] = s[i]]
        ELSE s[i]]

\* v?.trim(): undefined for null and undefined, the trimmed string of a
\* string, TypeError on any other value, which has no method trim
OptTrim(v) ==
    CASE v.t \in {"undefined", "null"} -> Ok(Undef)
      [] v.t = "string"                -> Ok(Str(Trim(v.s)))
      [] OTHER                         -> Throw("TypeError")

\* length of the body preview, text.slice(0, 180)
PreviewLen == 180

\* v.slice(0, n): strings and arrays have the method, a call on any other
\* value throws TypeError
Slice(v, n) ==
    CASE v.t = "string" -> Ok(Str(SubSeq(v.s, 1, Min(Len(v.s), n))))
      [] v.t = "array"  -> Ok(Arr(SubSeq(v.a, 1, Min(Len(v.a), n))))
      [] OTHER          -> Throw("TypeError")

Letter ==
    {"a","b","c","d","e","f","g","h","i","j","k","l","m",
     "n","o","p","q","r","s","t","u","v","w","x","y","z",
     "A","B","C","D","E","F","G","H","I","J","K","L","M",
     "N","O","P","Q","R","S","T","U","V","W","X","Y","Z"}

Digit == {"0","1","2","3","4","5","6","7","8","9"}

\* [A-Z0-9._%+-] with the i flag
LocalChar == Letter \cup Digit \cup {".", "_", "%", "+", "-"}

\* [A-Z0-9.-] with the i flag
DomainChar == Letter \cup Digit \cup {".", "-"}

\* str.match(/<([^>]+)>/): the capture group of the leftmost match, or
\* <<>> with found = FALSE.  A match at i is "<", then the characters up to
\* the first ">" after it, of which there is at least one.
AngleMatch(s) ==
    LET closeOf(i) == {j \in (i + 1)..Len(s) : s[j] = ">"}
        first(i)   == CHOOSE j \in closeOf(i) : \A k \in closeOf(i) : j <= k
        starts     == {i \in 1..Len(s) :
                          /\ s[i] = "<"
                          /\ closeOf(i) # {}
                          /\ first(i) >= i + 2}
    IN IF starts = {} THEN [found |-> FALSE, group |-> <<>>]
       ELSE LET i == CHOOSE a \in starts : \A b \in starts : a <= b
            IN [found |-> TRUE, group |-> SubSeq(s, i + 1, first(i) - 1)]

\* str.match(/[A-Z0-9._%+-]+@[A-Z0-9.-]+\.[A-Z]{2,}/i): the leftmost match,
\* each quantifier greedy.  From start i the local part runs to the "@" at
\* k; the domain run is the longest stretch of DomainChar after k; the dot
\* taken is the last one of the run that leaves a non-empty domain before
\* it and two letters after it; the top-level domain takes every letter
\* that follows.
EmailMatch(s) ==
    LET n == Len(s)
        runEnd(k) ==
            LET ends == {e \in k..n : \A q \in (k + 1)..e : s[q] \in DomainChar}
            IN CHOOSE e \in ends : \A f \in ends : f <= e
        dots(k) == {p \in (k + 2)..(runEnd(k) - 2) :
                       /\ s[p] = "."
                       /\ s[p + 1] \in Letter
                       /\ s[p + 2] \in Letter}
        lastDot(k) == CHOOSE p \in dots(k) : \A q \in dots(k) : q <= p
        tldEnd(p) ==
            LET ends == {e \in (p + 2)..n : \A q \in (p + 1)..e : s[q] \in Letter}
            IN CHOOSE e \in ends : \A f \in ends : f <= e
        ats(i) == {k \in (i + 1)..n :
                      /\ s[k] = "@"
                      /\ \A q \in i..(k - 1) : s[q] \in LocalChar
                      /\ dots(k) # {}}
        starts == {i \in 1..n : ats(i) # {}}
    IN IF starts = {} THEN [found |-> FALSE, match |-> <<>>]
       ELSE LET i == CHOOSE a \in starts : \A b \in starts : a <= b
                k == CHOOSE a \in ats(i) : TRUE
            IN [found |-> TRUE, match |-> SubSeq(s, i, tldEnd(lastDot(k)))]

\* extractEmail of the older server: the capture group as it is, else the
\* string as it is
extractEmailOld(str) ==
    IF str.t # "string" THEN Throw("TypeError")
    ELSE LET m == AngleMatch(str.s)
         IN IF m.found THEN Ok(Str(m.group)) ELSE Ok(str)

\* extractEmail(str): str.match is a method of strings only, so the call
\* throws TypeError on every other value that reaches it
extractEmail(str) ==
    IF str.t # "string" THEN Throw("TypeError")
    ELSE LET m  == AngleMatch(str.s)
             m2 == EmailMatch(str.s)
         IN IF m.found /\ Len(m.group) > 0 THEN Ok(Str(Trim(m.group)))
            ELSE IF m2.found THEN Ok(Str(m2.match))
            ELSE Ok(Str(Trim(str.s)))

(***************************************************************************)
(* Result normalizer and fallback builder.                                 *)
(***************************************************************************)
\* { boundary: "Noted.", cooperative: "Thanks for the update." }
DefaultReplyOptions == Obj([boundary |-> Str(sNoted), cooperative |-> Str(sThanks)])

\* a flag object { type, severity }
Flag(type, severity) == Obj([type |-> Str(type), severity |-> Num(severity)])

\* a handler that spreads the answer of the classifier into the message as
\* it is, as the older server of the repository does
passThrough(parsed) == IF parsed.t = "object" THEN parsed.o ELSE <<>>

\* the older normalizer of the repository, which defaults with ?? only
normalizeParsedNullish(parsed) ==
    [summary        |-> Nullish(Get(parsed, "summary"), Str(<<>>)),
     responseNeeded |-> Bool(Truthy(Get(parsed, "responseNeeded"))),
     neededToKnow   |-> Nullish(Get(parsed, "neededToKnow"), Arr(<<>>)),
     replyOptions   |-> Nullish(Get(parsed, "replyOptions"), DefaultReplyOptions),
     flags          |-> Nullish(Get(parsed, "flags"), Arr(<<>>))]

normalizeParsed(parsed) ==
    LET ro == Get(parsed, "replyOptions")
    IN [summary        |-> IF IsString(Get(parsed, "summary"))
                           THEN Get(parsed, "summary") ELSE Str(<<>>),
        responseNeeded |-> Bool(Truthy(Get(parsed, "responseNeeded"))),
        neededToKnow   |-> IF IsArray(Get(parsed, "neededToKnow"))
                           THEN Get(parsed, "neededToKnow") ELSE Arr(<<>>),
        replyOptions   |-> IF /\ Truthy(ro)
                              /\ IsString(Get(ro, "boundary"))
                              /\ IsString(Get(ro, "cooperative"))
                           THEN ro ELSE DefaultReplyOptions,
        flags          |-> IF IsArray(Get(parsed, "flags"))
                           THEN Get(parsed, "flags")
                           ELSE Arr(<<Flag(sNonJson, 2)>>)]

\* normalizeParsed of the server that carries the extended fields: flags
\* default to [], and each of the five extras to [] unless it is an array
normalizeParsedExtended(parsed) ==
    LET ro == Get(parsed, "replyOptions")
        extra(k) == IF IsArray(Get(parsed, k)) THEN Get(parsed, k) ELSE Arr(<<>>)
    IN [summary          |-> IF IsString(Get(parsed, "summary"))
                             THEN Get(parsed, "summary") ELSE Str(<<>>),
        responseNeeded   |-> Bool(Truthy(Get(parsed, "responseNeeded"))),
        neededToKnow     |-> IF IsArray(Get(parsed, "neededToKnow"))
                             THEN Get(parsed, "neededToKnow") ELSE Arr(<<>>),
        replyOptions     |-> IF /\ Truthy(ro)
                                /\ IsString(Get(ro, "boundary"))
                                /\ IsString(Get(ro, "cooperative"))
                             THEN ro ELSE DefaultReplyOptions,
        flags            |-> IF IsArray(Get(parsed, "flags"))
                             THEN Get(parsed, "flags") ELSE Arr(<<>>),
        requestedChanges |-> extra("requestedChanges"),
        dates            |-> extra("dates"),
        times            |-> extra("times"),
        locations        |-> extra("locations"),
        deadlines        |-> extra("deadlines")]

\* a builder that records "ai_error" whatever reason it is called with, as
\* the fallback of the older server of the repository does
buildFallbackFixedTag(from, subject, text, reasonType) ==
    [ok |-> TRUE,
     v  |-> [summary        |-> Str(sAIUnavailable),
             responseNeeded |-> Bool(TRUE),
             neededToKnow   |-> Arr(<<>>),
             replyOptions   |-> DefaultReplyOptions,
             flags          |-> Arr(<<Flag(sAiError, 3)>>)]]

\* buildFallbackMessage({ from, subject, text }, reasonType = "ai_unavailable"):
\* the record, or the TypeError of text.slice on a text that has no slice
buildFallbackMessage(from, subject, text, reasonType) ==
    LET reason  == IF reasonType = Undef THEN Str(sAiUnavailableTag) ELSE reasonType
        preview == Slice(text, PreviewLen)
    IN IF Truthy(text) /\ ~preview.ok THEN Throw(preview.e)
       ELSE Ok(
        [summary        |-> Str(sAIUnavailable),
         responseNeeded |-> Bool(TRUE),
         neededToKnow   |-> Arr(<<
             IF Truthy(subject) THEN Str(sSubjectPfx \o ToStr(subject))
                                ELSE Str(sSubjectNone),
             IF Truthy(from) THEN Str(sFromPfx \o ToStr(from))
                             ELSE Str(sFromUnknown),
             IF Truthy(text) THEN Str(sPreviewPfx \o ToStr(preview.v))
                             ELSE Str(sPreviewEmpty) >>),
         replyOptions   |-> DefaultReplyOptions,
         flags          |-> Arr(<<Obj([type |-> reason, severity |-> Num(3)])>>)])

(***************************************************************************)
(* Classification client.                                                  *)
(*                                                                         *)
(* The output text of the upstream service is a sequence of chunks: a      *)
(* stretch of prose, a markdown code fence, or the serialization of one    *)
(* JSON value.                                                             *)
(***************************************************************************)
Prose(s) == [k |-> "prose", s |-> s]

Fence == [k |-> "fence"]

Json(v) == [k |-> "json", v |-> v]

\* JSON.parse(text): the value when the text is the serialization of one
\* JSON value and nothing else, SyntaxError otherwise
JSONparse(text) ==
    IF Len(text) = 1 /\ text[1].k = "json" THEN Ok(text[1].v)
    ELSE Throw("SyntaxError")

\* what client.responses.create does: the promise rejects, never settles,
\* or resolves with a response carrying output_text
Reject == [k |-> "reject"]

Hang == [k |-> "hang"]

Resolve(text) == [k |-> "resolve", output_text |-> text]

\* analyzeWithAI from the point where the awaited upstream call has settled:
\* a rejection is rethrown, a response is parsed with JSON.parse
analyzeWithAI(settled) ==
    IF settled.k = "reject" THEN Throw("APIError")
    ELSE JSONparse(settled.output_text)

(***************************************************************************)
(* Message store (Postgres, table messages).                               *)
(***************************************************************************)
\* m.k of a record of fields, undefined when absent
Field(m, k) == IF k \in DOMAIN m THEN m[k] ELSE Undef

\* a query parameter bound to a TEXT column, read back: NULL for null and
\* undefined, the string itself, String(v) of a number or a boolean
PgText(v) ==
    CASE v.t \in {"null", "undefined"} -> Null
      [] v.t = "string"                -> v
      [] v.t \in {"number", "boolean"} -> Str(ToStr(v))

\* JSON.stringify(v) bound to a JSONB column, read back: an undefined
\* element of an array becomes null, an undefined property is dropped
RECURSIVE Jsonb(_)
Jsonb(v) ==
    CASE v.t = "array"  ->
            Arr([i \in 1..Len(v.a) |->
                    IF v.a[i].t = "undefined" THEN Null ELSE Jsonb(v.a[i])])
      [] v.t = "object" ->
            Obj([k \in {q \in DOMAIN v.o : v.o[q].t # "undefined"} |-> Jsonb(v.o[k])])
      [] OTHER          -> v

\* the row INSERTed by insertMessage(m); received_at is not among the
\* columns of the INSERT and takes its DEFAULT NOW()
insertMessage(m, dbNow) ==
    [id              |-> Field(m, "id"),
     channel         |-> PgText(Nullish(Field(m, "channel"), Str(sEmail))),
     received_at     |-> dbNow,
     from_raw        |-> PgText(Nullish(Field(m, "fromRaw"), Null)),
     from_email      |-> PgText(Nullish(Field(m, "fromEmail"), Null)),
     subject         |-> PgText(Nullish(Field(m, "subject"), Null)),
     raw_text        |-> PgText(Nullish(Field(m, "rawText"), Null)),
     summary         |-> PgText(Nullish(Field(m, "summary"), Null)),
     response_needed |-> Nullish(Field(m, "responseNeeded"), Bool(FALSE)),
     needed_to_know  |-> Jsonb(Nullish(Field(m, "neededToKnow"), Arr(<<>>))),
     reply_options   |-> Jsonb(Nullish(Field(m, "replyOptions"), EmptyObj)),
     flags           |-> Jsonb(Nullish(Field(m, "flags"), Arr(<<>>)))]

(***************************************************************************)
(* Inputs of the model.                                                    *)
(***************************************************************************)
\* the classifier's answer of end-to-end scenario 1
ValidObj ==
    Obj([summary        |-> Str(sSummary1),
         responseNeeded |-> Bool(TRUE),
         neededToKnow   |-> Arr(<<Str(sNeeded1)>>),
         replyOptions   |-> Obj([boundary |-> Str(sNoted), cooperative |-> Str(sCoop1)]),
         flags          |-> Arr(<<>>)])

\* an object with fields missing, and flags in the string[] shape that an
\* older prompt of the repository asked for
PartialObj == Obj([summary |-> Str(sOk), flags |-> Arr(<<Str(sInsult)>>)])

\* an object whose every field has the wrong type
WrongTypedObj ==
    Obj([summary        |-> Num(5),
         responseNeeded |-> Str(sOk),
         neededToKnow   |-> Str(sOk),
         replyOptions   |-> Obj([boundary |-> Str(sOk)]),
         flags          |-> Null])

\* the answer of scenario 1 with keys added that name the identity fields of
\* a message: another id, the address of an allowed recipient as sender
HostileObj ==
    Obj(Spread(ValidObj.o,
               [id        |-> Str(sOk),
                channel   |-> Str(sOk),
                fromRaw   |-> Str(sJeremy),
                fromEmail |-> Str(sJeremyAddr),
                subject   |-> Str(sHello),
                rawText   |-> Str(sLate)]))

\* output texts that are the serialization of one JSON value
JsonTexts ==
    { <<Json(ValidObj)>>, <<Json(Null)>>, <<Json(Num(5))>>, <<Json(EmptyObj)>>,
      <<Json(PartialObj)>>, <<Json(WrongTypedObj)>>, <<Json(HostileObj)>> }

\* plain prose with no JSON at all (end-to-end scenario 4)
ProseTexts == { <<Prose(sProse)>> }

\* a JSON object wrapped in markdown fences, with and without prose before
\* it (end-to-end scenario 3)
WrappedTexts ==
    { <<Fence, Json(ValidObj), Fence>>, <<Prose(sProse), Fence, Json(ValidObj), Fence>> }

OutputTexts == JsonTexts \cup ProseTexts \cup WrappedTexts

\* what the upstream call of one request may do
Upstream == {Reject, Hang} \cup {Resolve(text) : text \in OutputTexts}

\* request bodies the webhook may carry: express.json() accepts any JSON
\* object, so a field may be absent or hold a value that is not a string
Bodies ==
    { Undef,
      Obj([from |-> Str(sJane), subject |-> Str(sPickup), text |-> Str(sBody)]),
      Obj([from |-> Str(sJane), subject |-> Str(sPickup)]),
      Obj([from |-> Str(sJane), subject |-> Str(sPickup), text |-> Str(<<>>)]),
      Obj([from |-> Num(7), subject |-> Str(sPickup), text |-> Str(sBody)]),
      Obj([from |-> Str(sJane), subject |-> Str(sPickup), text |-> Num(42)]),
      Obj([from |-> Str(sJane), subject |-> Num(5), text |-> Str(sBody)]),
      Obj([text |-> Str(sBody)]) }

Req == 1..MaxReq

\* the values crypto.randomUUID() may return
UUID(k) == Str(<<"u", "u", "i", "d", "-">> \o Digits(k))

UUIDs == {UUID(k) : k \in 1..MaxReq}

(***************************************************************************)
(* State.                                                                  *)
(***************************************************************************)
VARIABLES
    pc,        \* [Req -> position of the request's handler]
    body,      \* [Req -> req.body]
    loc,       \* [Req -> the handler's local variables]
    upstream,  \* [Req -> what the upstream call of the request did]
    aiCalls,   \* [Req -> number of calls of analyzeWithAI]
    inserts,   \* [Req -> number of INSERT queries issued]
    dbResult,  \* [Req -> how the INSERT of the request ended: none, ok, error]
    resp,      \* [Req -> the HTTP response sent]
    store,     \* the rows of table messages, in insertion order
    writer,    \* for each row of the store, the request whose INSERT added it
    issued,    \* the ids crypto.randomUUID() has returned
    now,       \* the wall clock
    cpc,       \* [app request -> position of its handler]
    creq,      \* [app request -> route and req.body]
    cloc,      \* [app request -> the handler's local variables]
    cresp,     \* [app request -> the HTTP response sent]
    sends,     \* the calls of sendEmail, in call order, with their outcome
    arg,       \* the argument a function under test was first called with
    out,       \* the values its successive calls returned
    mem,       \* the in-memory server: its handlers and its array messages
    sent,      \* [Req -> number of responses the handler has written]
    csent,     \* [app request -> number of responses the handler has written]
    env,       \* process.env, as the server read it when it started
    hdr,       \* [Req -> req.headers.authorization]
    chdr       \* [app request -> req.headers.authorization]

\* the state of the app-facing routes GET /messages, POST /reply, POST /compose
appVars == <<cpc, creq, cloc, cresp, sends, csent>>

\* the state of a function called on its own
callVars == <<arg, out>>

\* what no handler changes: the environment and the headers of the requests
deployVars == <<env, hdr, chdr>>

vars == <<pc, body, loc, upstream, aiCalls, inserts, dbResult, resp, store, writer,
          issued, now, appVars, callVars, mem, sent, deployVars>>

NoResp == [status |-> 0, json |-> Undef]

NoUpstream == [k |-> "none"]

NoLocals ==
    [id |-> Undef, from |-> Undef, subject |-> Undef, text |-> Undef,
     fromEmail |-> Undef, path |-> "none", m |-> <<>>]

\* the locals of an app-facing handler that has computed no recipient and
\* issued no query
NoAppLocals == [to |-> Undef, queries |-> 0]

\* new Date().toISOString()
IsoDate(ms) == [t |-> "isodate", ms |-> ms]

(***************************************************************************)
(* basicAuth: the middleware of GET /messages, POST /email/inbound,        *)
(* POST /reply and POST /compose, and the environment of the process.      *)
(***************************************************************************)
\* the text of the source and of the requests of the model
sBasic ==
    <<"B","a","s","i","c"," ">>
sBearer ==
    <<"B","e","a","r","e","r"," ","b","W","0","6","c","H","c","=">>
sCredGood ==
    <<"b","W","0","6","c","H","c","=">>
sCredWrongPass ==
    <<"b","W","0","6","b","m","8","=">>
sCredWrongUser ==
    <<"e","H","g","6","c","H","c","=">>
sCredNoColon ==
    <<"b","W","0","=">>
sUser ==
    <<"m","m">>
sPass ==
    <<"p","w">>
sApiKey ==
    <<"S","G",".","k","e","y">>
sMisconfigured ==
    <<"S","e","r","v","e","r"," ","m","i","s","c","o","n","f","i","g","u","r","e","d",":"," ","m","i","s","s","i","n","g"," ","I","N","B","O","U","N","D","_","U","S","E","R","/","I","N","B","O","U","N","D","_","P","A","S","S">>
sMissingAuth ==
    <<"M","i","s","s","i","n","g"," ","a","u","t","h">>
sInvalidAuth ==
    <<"I","n","v","a","l","i","d"," ","a","u","t","h">>

\* process.env as the server reads it at start: X || "" for each variable
Env(user, pass, key, from) ==
    [INBOUND_USER |-> Str(user), INBOUND_PASS |-> Str(pass),
     SENDGRID_API_KEY |-> Str(key), MAIL_FROM |-> Str(from)]

\* every variable is set
ProdEnv == Env(sUser, sPass, sApiKey, sMikelleAddr)

\* the environments of the model: all set, and one variable missing
Envs ==
    { ProdEnv,
      Env(<<>>, sPass, sApiKey, sMikelleAddr),
      Env(sUser, <<>>, sApiKey, sMikelleAddr),
      Env(sUser, sPass, <<>>, sMikelleAddr),
      Env(sUser, sPass, sApiKey, <<>>) }

\* the Authorization header of a client that knows the credentials
GoodHeader == Str(sBasic \o sCredGood)

\* req.headers.authorization: absent, of another scheme, the credentials,
\* a wrong password, a wrong user, a user without password
Headers ==
    { Undef, Str(sBearer), GoodHeader, Str(sBasic \o sCredWrongPass),
      Str(sBasic \o sCredWrongUser), Str(sBasic \o sCredNoColon) }

\* F(v), the value v being computed once
Once(v, F(_)) == CHOOSE y \in {F(x) : x \in {v}} : TRUE

\* String.prototype.startsWith
StartsWith(s, prefix) ==
    Len(s) >= Len(prefix) /\ SubSeq(s, 1, Len(prefix)) = prefix

\* the digits of base64, in the order of their values
Base64Alphabet == UpperCase \o LowerCase \o DigitChar \o <<"+", "/">>

\* the characters of the codes 32 to 95
Ascii ==
    <<" ","!","\"","#","$","%","&","'","(",")","*","+",",","-",".","/",
      "0","1","2","3","4","5","6","7","8","9",":",";","<","=",">","?",
      "@","A","B","C","D","E","F","G","H","I","J","K","L","M","N","O",
      "P","Q","R","S","T","U","V","W","X","Y","Z","[","\\","]","^","_">>

\* the value of a base64 digit
Sextet(ch) == (CHOOSE i \in 1..Len(Base64Alphabet) : Base64Alphabet[i] = ch) - 1

\* the character of a byte: "?" stands for the grave accent, for a control
\* character and for the U+FFFD of a byte above 126
Chr(byte) ==
    IF byte \in 32..95 THEN Ascii[byte - 31]
    ELSE IF byte \in 97..122 THEN LowerCase[byte - 96]
    ELSE IF byte \in 123..126 THEN <<"{", "|", "}", "~">>[byte - 122]
    ELSE "?"

\* the bytes of a sequence of base64 digits, as characters: every four
\* digits give three bytes, and of the digits that remain three give two
\* bytes and two give one
DecodeDigits(d) ==
    [k \in 1..((Len(d) * 6) \div 8) |->
        LET first  == 4 * ((k - 1) \div 3)
            six(i) == IF first + i <= Len(d) THEN Sextet(d[first + i]) ELSE 0
            v      == ((six(1) * 64 + six(2)) * 64 + six(3)) * 64 + six(4)
        IN Chr(<<v \div 65536, (v \div 256) % 256, v % 256>>[((k - 1) % 3) + 1])]

\* Buffer.from(s, "base64").toString("utf8"): the digits up to the padding
\* are decoded, a character that is no digit is skipped
Base64Decode(s) ==
    LET pad  == {i \in 1..Len(s) : s[i] = "="}
        stop == IF pad = {} THEN Len(s)
                ELSE (CHOOSE i \in pad : \A j \in pad : i <= j) - 1
        isDigit(c) == \E i \in 1..Len(Base64Alphabet) : Base64Alphabet[i] = c
    IN Once(SelectSeq(SubSeq(s, 1, stop), isDigit), DecodeDigits)

\* String.prototype.split(sep) for a separator of one character: the
\* parts between the separators, one more than there are separators
Split(s, sep) ==
    LET at     == {i \in 1..Len(s) : s[i] = sep}
        nth(k) == IF k = 0 THEN 0
                  ELSE IF k > Cardinality(at) THEN Len(s) + 1
                  ELSE CHOOSE i \in at : Cardinality({j \in at : j < i}) = k - 1
    IN [k \in 1..(Cardinality(at) + 1) |-> SubSeq(s, nth(k - 1) + 1, nth(k) - 1)]

\* res.status(500).json({ ok: false, error: "Server misconfigured: ..." })
Misconfigured ==
    [status |-> 500, json |-> Obj([ok |-> Bool(FALSE), error |-> Str(sMisconfigured)])]

\* res.status(401).json({ ok: false, error: "Missing auth" })
MissingAuth ==
    [status |-> 401, json |-> Obj([ok |-> Bool(FALSE), error |-> Str(sMissingAuth)])]

\* res.status(401).json({ ok: false, error: "Invalid auth" })
InvalidAuth ==
    [status |-> 401, json |-> Obj([ok |-> Bool(FALSE), error |-> Str(sInvalidAuth)])]

\* the middleware calls next()
Pass == [next |-> TRUE, resp |-> NoResp]

\* the middleware answers and the handler of the route is not called
Deny(response) == [next |-> FALSE, resp |-> response]

\* a middleware that checks the user name only
basicAuthUserOnly(authorization, e) ==
    LET header == Or(authorization, Str(<<>>))
        verdict(parts) ==
            IF Str(parts[1]) # e.INBOUND_USER THEN Deny(InvalidAuth) ELSE Pass
        compare(decoded) == Once(Split(decoded, ":"), verdict)
    IN IF ~Truthy(e.INBOUND_USER) \/ ~Truthy(e.INBOUND_PASS) THEN Deny(Misconfigured)
       ELSE IF ~StartsWith(header.s, sBasic) THEN Deny(MissingAuth)
       ELSE Once(Base64Decode(SubSeq(header.s, 7, Len(header.s))), compare)

\* basicAuth(req, res, next) on the Authorization header of the request,
\* in the environment e: decoded is the text of the credentials, parts
\* what split(":") makes of it, u and p its first two elements
basicAuth(authorization, e) ==
    LET header == Or(authorization, Str(<<>>))
        verdict(parts) ==
            LET u == Str(parts[1])
                p == IF Len(parts) >= 2 THEN Str(parts[2]) ELSE Undef
            IN IF u # e.INBOUND_USER \/ p # e.INBOUND_PASS THEN Deny(InvalidAuth)
               ELSE Pass
        compare(decoded) == Once(Split(decoded, ":"), verdict)
    IN IF ~Truthy(e.INBOUND_USER) \/ ~Truthy(e.INBOUND_PASS) THEN Deny(Misconfigured)
       ELSE IF ~StartsWith(header.s, sBasic) THEN Deny(MissingAuth)
       ELSE Once(Base64Decode(SubSeq(header.s, 7, Len(header.s))), compare)

\* a sendEmail that checks the API key only
MailerReadyKeyOnly(e) == Truthy(e.SENDGRID_API_KEY)

\* sendEmail has what it needs: neither throw new Error("Missing ...")
\* is reached
MailerReady(e) == Truthy(e.SENDGRID_API_KEY) /\ Truthy(e.MAIL_FROM)

\* the environment is complete and the clients of the requests of R and of
\* the app requests of Q know the credentials
Trusted(R, Q) ==
    /\ env = ProdEnv
    /\ hdr = [r \in R |-> GoodHeader]
    /\ chdr = [q \in Q |-> GoodHeader]

\* the in-memory server has started: its array messages is empty and the
\* requests of R are yet to reach it.  by names, for each element of
\* messages, the request whose handler added it.
MemIdle(R) ==
    [pc       |-> [r \in R |-> "idle"],
     resp     |-> [r \in R |-> NoResp],
     messages |-> <<>>,
     by       |-> <<>>]

\* the server has started, the table is empty and the requests of R are yet
\* to arrive
IngestIdle(R) ==
    /\ mem = MemIdle(R)
    /\ pc = [r \in R |-> "idle"]
    /\ body = [r \in R |-> Undef]
    /\ loc = [r \in R |-> NoLocals]
    /\ upstream = [r \in R |-> NoUpstream]
    /\ aiCalls = [r \in R |-> 0]
    /\ inserts = [r \in R |-> 0]
    /\ dbResult = [r \in R |-> "none"]
    /\ resp = [r \in R |-> NoResp]
    /\ sent = [r \in R |-> 0]
    /\ store = <<>>
    /\ writer = <<>>
    /\ issued = {}
    /\ now = 0

\* the app requests of Q are yet to arrive and sendEmail has not been called
AppIdle(Q) ==
    /\ cpc = [q \in Q |-> "idle"]
    /\ creq = [q \in Q |-> [route |-> "none", body |-> Undef]]
    /\ cloc = [q \in Q |-> NoAppLocals]
    /\ cresp = [q \in Q |-> NoResp]
    /\ csent = [q \in Q |-> 0]
    /\ sends = <<>>

\* no function is called on its own
NoCall ==
    /\ arg = Undef
    /\ out = <<>>

Init ==
    /\ IngestIdle(Req)
    /\ AppIdle({})
    /\ Trusted(Req, {})
    /\ NoCall

(***************************************************************************)
(* Responses of POST /email/inbound.                                       *)
(***************************************************************************)
\* res.status(400).json({ ok: false, error: "Missing text body" })
BadRequest == [status |-> 400, json |-> Obj([ok |-> Bool(FALSE), error |-> Str(sMissingText)])]

\* res.status(500).json({ ok: false, error: "Server error" })
ServerError == [status |-> 500, json |-> Obj([ok |-> Bool(FALSE), error |-> Str(sServerError)])]

\* res.json({ ok: true, id })
AckFull(id) == [status |-> 200, json |-> Obj([ok |-> Bool(TRUE), id |-> id])]

\* an acknowledgement of the fallback that is not told apart from full success
AckFallbackAsFull(id) == AckFull(id)

\* res.status(202).json({ ok: true, id, warning: "AI unavailable, stored fallback" })
AckFallback(id) ==
    [status |-> 202,
     json |-> Obj([ok |-> Bool(TRUE), id |-> id, warning |-> Str(sWarning)])]

\* a handler that acknowledges whatever became of the INSERT
ReplyIgnoringInsert(path, insertOk, id) ==
    IF path = "fallback" THEN AckFallback(id) ELSE AckFull(id)

\* what the handler answers once the awaited INSERT has settled: the
\* acknowledgement of its path, or the outer catch's 500 when it rejected
Reply(path, insertOk, id) ==
    IF ~insertOk THEN ServerError
    ELSE IF path = "fallback" THEN AckFallback(id) ELSE AckFull(id)

\* a handler without the check of the body text
MissingTextNever(text) == FALSE

\* if (!text)
MissingText(text) == ~Truthy(text)

\* a call of buildFallbackMessage that leaves the reason to its default
ReasonTagOmitted == Undef

\* the reason tag the pipeline passes to buildFallbackMessage
ReasonTag == Str(sAiError)

\* a handler that does not await insertMessage
InsertSettledOrPending(p) == p \in {"awaitInsert", "insertOk", "insertErr"}

\* `await insertMessage(...)`: the handler resumes when the query has settled
InsertSettled(p) == p \in {"insertOk", "insertErr"}

\* a handler that keeps the sender in a variable of the module, shared by
\* the requests in flight: the object carries the sender of the first request
MessageSharedSender(l, fields, clock) ==
    Spread([id         |-> l.id,
            channel    |-> Str(sEmail),
            receivedAt |-> IsoDate(clock),
            fromRaw    |-> loc[CHOOSE r \in DOMAIN loc : \A x \in DOMAIN loc : r <= x].from,
            fromEmail  |-> l.fromEmail,
            subject    |-> l.subject,
            rawText    |-> l.text],
           fields)

\* the object passed to insertMessage
Message(l, fields, clock) ==
    Spread([id         |-> l.id,
            channel    |-> Str(sEmail),
            receivedAt |-> IsoDate(clock),
            fromRaw    |-> l.from,
            fromEmail  |-> l.fromEmail,
            subject    |-> l.subject,
            rawText    |-> l.text],
           fields)

(***************************************************************************)
(* POST /email/inbound.                                                    *)
(***************************************************************************)
\* The request arrives and the handler runs to its first await: it reads the
\* body, rejects a missing text, draws the id, derives the sender address
\* and calls analyzeWithAI, which issues the upstream call.
Inbound(r, bodies, ids) ==
    /\ pc[r] = "idle"
    /\ basicAuth(hdr[r], env).next
    /\ \E b \in bodies :
         LET bd      == Or(b, EmptyObj)
             from    == Or(Get(bd, "from"), Str(<<>>))
             subject == Or(Get(bd, "subject"), Str(<<>>))
             text    == Or(Get(bd, "text"), Str(<<>>))
         IN /\ body' = [body EXCEPT ![r] = b]
            /\ IF MissingText(text)
               THEN /\ resp' = [resp EXCEPT ![r] = BadRequest]
                    /\ sent' = [sent EXCEPT ![r] = @ + 1]
                    /\ pc' = [pc EXCEPT ![r] = "done"]
                    /\ UNCHANGED <<loc, aiCalls, issued>>
               ELSE \E id \in ids :
                      LET fromEmail == extractEmail(from)
                          l == [NoLocals EXCEPT !.id = id, !.from = from,
                                                !.subject = subject, !.text = text]
                      IN /\ issued' = issued \cup {id}
                         /\ IF ~fromEmail.ok
                            THEN /\ resp' = [resp EXCEPT ![r] = ServerError]
                                 /\ sent' = [sent EXCEPT ![r] = @ + 1]
                                 /\ pc' = [pc EXCEPT ![r] = "done"]
                                 /\ loc' = [loc EXCEPT ![r] = l]
                                 /\ UNCHANGED aiCalls
                            ELSE /\ loc' = [loc EXCEPT ![r] =
                                               [l EXCEPT !.fromEmail = fromEmail.v]]
                                 /\ aiCalls' = [aiCalls EXCEPT ![r] = @ + 1]
                                 /\ pc' = [pc EXCEPT ![r] = "awaitAI"]
                                 /\ UNCHANGED <<resp, sent>>
    /\ UNCHANGED <<upstream, inserts, dbResult, store, writer, now, appVars, callVars, mem, deployVars>>

\* a request of the webhook bridge arrives
Receive(r) == Inbound(r, Bodies, UUIDs)

\* The upstream call never settles: the handler stays suspended at
\* `await analyzeWithAI(...)`, which sets no timeout.
AIHang(r) ==
    /\ pc[r] = "awaitAI"
    /\ upstream' = [upstream EXCEPT ![r] = Hang]
    /\ pc' = [pc EXCEPT ![r] = "hung"]
    /\ UNCHANGED <<body, loc, aiCalls, inserts, dbResult, resp, sent, store, writer, issued, now,
                   appVars, callVars, mem, deployVars>>

\* The upstream call settles and the handler runs to its next await.  When
\* analyzeWithAI returns, the result is normalized and inserted; when it
\* throws, the fallback is built and inserted; an exception thrown while
\* building the fallback reaches the outer catch.
Classified(r, outcomes) ==
    /\ pc[r] = "awaitAI"
    /\ \E u \in outcomes :
         LET parsed == analyzeWithAI(u)
             l == loc[r]
             fallback == buildFallbackMessage(l.from, l.subject, l.text, ReasonTag)
         IN /\ upstream' = [upstream EXCEPT ![r] = u]
            /\ IF parsed.ok
               THEN /\ loc' = [loc EXCEPT ![r] =
                                 [l EXCEPT !.path = "normal",
                                           !.m = Message(l, normalizeParsed(parsed.v), now)]]
                    /\ inserts' = [inserts EXCEPT ![r] = @ + 1]
                    /\ pc' = [pc EXCEPT ![r] = "awaitInsert"]
                    /\ UNCHANGED <<resp, sent>>
               ELSE IF fallback.ok
               THEN /\ loc' = [loc EXCEPT ![r] =
                                 [l EXCEPT !.path = "fallback",
                                           !.m = Message(l, fallback.v, now)]]
                    /\ inserts' = [inserts EXCEPT ![r] = @ + 1]
                    /\ pc' = [pc EXCEPT ![r] = "awaitInsert"]
                    /\ UNCHANGED <<resp, sent>>
               ELSE /\ loc' = [loc EXCEPT ![r] = [l EXCEPT !.path = "fallback"]]
                    /\ resp' = [resp EXCEPT ![r] = ServerError]
                    /\ sent' = [sent EXCEPT ![r] = @ + 1]
                    /\ pc' = [pc EXCEPT ![r] = "done"]
                    /\ UNCHANGED inserts
    /\ UNCHANGED <<body, aiCalls, dbResult, store, writer, issued, now, appVars, callVars, mem, deployVars>>

\* the upstream call of the request settles
AISettle(r) == Classified(r, Upstream \ {Hang})

\* a table without the primary key
NoPrimaryKey(id) == TRUE

\* id TEXT PRIMARY KEY: a row is accepted when no row of the table has its id
PrimaryKeyFree(id) == \A i \in 1..Len(store) : store[i].id # id

\* an INSERT ... ON CONFLICT (id) DO UPDATE: a row whose id is taken
\* replaces the row that holds it
DbUpsert(r) ==
    /\ pc[r] = "awaitInsert"
    /\ \E t \in {now, now + 1} :
         /\ now' = t
         /\ IF PrimaryKeyFree(loc[r].m.id)
            THEN /\ store' = Append(store, insertMessage(loc[r].m, t))
                 /\ writer' = Append(writer, r)
            ELSE \E i \in 1..Len(store) :
                   /\ store[i].id = loc[r].m.id
                   /\ store' = [store EXCEPT ![i] = insertMessage(loc[r].m, t)]
                   /\ writer' = [writer EXCEPT ![i] = r]
    /\ dbResult' = [dbResult EXCEPT ![r] = "ok"]
    /\ pc' = [pc EXCEPT ![r] = "insertOk"]
    /\ UNCHANGED <<body, loc, upstream, aiCalls, inserts, resp, sent, issued, appVars, callVars, mem, deployVars>>

\* Postgres executes the INSERT: the row is added with received_at = NOW(),
\* the clock having advanced or not since the handler read it.  A row with
\* the id of an existing row violates the primary key.
DbInsertOk(r) ==
    /\ pc[r] = "awaitInsert"
    /\ PrimaryKeyFree(loc[r].m.id)
    /\ \E t \in {now, now + 1} :
         /\ now' = t
         /\ store' = Append(store, insertMessage(loc[r].m, t))
    /\ writer' = Append(writer, r)
    /\ dbResult' = [dbResult EXCEPT ![r] = "ok"]
    /\ pc' = [pc EXCEPT ![r] = "insertOk"]
    /\ UNCHANGED <<body, loc, upstream, aiCalls, inserts, resp, sent, issued, appVars, callVars, mem, deployVars>>

\* The INSERT fails (connection lost, constraint violated): no row is added
\* and the promise of pool.query rejects.
DbInsertFail(r) ==
    /\ pc[r] = "awaitInsert"
    /\ dbResult' = [dbResult EXCEPT ![r] = "error"]
    /\ pc' = [pc EXCEPT ![r] = "insertErr"]
    /\ UNCHANGED <<body, loc, upstream, aiCalls, inserts, resp, sent, store, writer, issued, now,
                   appVars, callVars, mem, deployVars>>

\* The awaited INSERT has settled and the handler answers.
Respond(r) ==
    /\ InsertSettled(pc[r])
    /\ resp' = [resp EXCEPT ![r] = Reply(loc[r].path, pc[r] # "insertErr", loc[r].id)]
    /\ sent' = [sent EXCEPT ![r] = @ + 1]
    /\ pc' = [pc EXCEPT ![r] = "done"]
    /\ UNCHANGED <<body, loc, upstream, aiCalls, inserts, dbResult, store, writer, issued,
                   now, appVars, callVars, mem, deployVars>>

\* a SELECT without the WHERE clause: the first row of the table, whatever
\* the id asked for
lookupAny(messageId) ==
    IF store = <<>> THEN Undef
    ELSE Obj([from_raw   |-> store[1].from_raw,
              from_email |-> store[1].from_email,
              subject    |-> store[1].subject])

\* SELECT from_raw, from_email, subject FROM messages WHERE id = $1 LIMIT 1,
\* then rows[0]: the row of that id, undefined when there is none
lookup(messageId) ==
    LET hits == {i \in 1..Len(store) : store[i].id = messageId}
    IN IF hits = {} THEN Undef
       ELSE LET i == CHOOSE a \in hits : \A b \in hits : a <= b
            IN Obj([from_raw   |-> store[i].from_raw,
                    from_email |-> store[i].from_email,
                    subject    |-> store[i].subject])

Step(r) ==
    \/ Receive(r)
    \/ AIHang(r)
    \/ AISettle(r)
    \/ DbInsertOk(r)
    \/ DbInsertFail(r)
    \/ Respond(r)

Next == \E r \in Req : Step(r)

Spec == Init /\ [][Next]_vars

\* The event loop resumes every handler whose awaited promise has settled,
\* and the network and the database settle every call that is not hung.
FairSpec == Spec /\ \A r \in Req : WF_vars(Step(r))

(***************************************************************************)
(* The in-memory server of the repository: POST /email/inbound keeps the   *)
(* messages in an array of the process.  It is given the requests that     *)
(* the server above received, and the outcome that the upstream call of    *)
(* that server had.                                                        *)
(***************************************************************************)
\* res.json({ ok: true })
AckPlain == [status |-> 200, json |-> Obj([ok |-> Bool(TRUE)])]

\* { ...v }: the own properties of an object, none of null, of a number or
\* of a boolean
SpreadOf(v) == IF v.t = "object" THEN v.o ELSE <<>>

\* The request that the server received as request r reaches the in-memory
\* server, whose handler runs to its await: it reads the body, rejects a
\* missing text and calls analyzeWithAI.
MemInbound(r) ==
    LET bd   == Or(body[r], EmptyObj)
        text == Or(Get(bd, "text"), Str(<<>>))
    IN /\ pc[r] # "idle"
       /\ mem.pc[r] = "idle"
       /\ IF ~Truthy(text)
          THEN mem' = [mem EXCEPT !.pc[r] = "done", !.resp[r] = BadRequest]
          ELSE mem' = [mem EXCEPT !.pc[r] = "awaitAI"]
       /\ UNCHANGED <<pc, body, loc, upstream, aiCalls, inserts, dbResult, resp, sent, store,
                      writer, issued, now, appVars, callVars, deployVars>>

\* The upstream call settles as it did for request r and the handler runs to
\* its end: when analyzeWithAI returns, the message is built from its result
\* as it is and put at the head of the array; when it throws, the catch of
\* the handler answers 500, there being no fallback.
MemSettle(r) ==
    LET parsed == analyzeWithAI(upstream[r])
    IN /\ mem.pc[r] = "awaitAI"
       /\ upstream[r].k \in {"reject", "resolve"}
       /\ IF parsed.ok
          THEN \E id \in UUIDs :
                 mem' = [mem EXCEPT
                           !.pc[r] = "done",
                           !.resp[r] = AckPlain,
                           !.messages = <<Spread([id         |-> id,
                                                  channel    |-> Str(sEmail),
                                                  receivedAt |-> IsoDate(now)],
                                                 SpreadOf(parsed.v))>> \o @,
                           !.by = <<r>> \o @]
          ELSE mem' = [mem EXCEPT !.pc[r] = "done", !.resp[r] = ServerError]
       /\ UNCHANGED <<pc, body, loc, upstream, aiCalls, inserts, dbResult, resp, sent, store,
                      writer, issued, now, appVars, callVars, deployVars>>

VariantNext ==
    \/ Next
    \/ \E r \in Req : MemInbound(r) \/ MemSettle(r)

\* the server and the in-memory server on the same requests
VariantSpec == Init /\ [][VariantNext]_vars

(***************************************************************************)
(* App-facing routes: GET /messages, POST /reply, POST /compose, and the   *)
(* outbound send.                                                          *)
(***************************************************************************)
\* the only addresses the server sends mail to
ALLOWED_RECIPIENTS == {Str(sJeremyAddr), Str(sJklineAddr), Str(sMikelleAddr)}

\* a route that sends to whatever address it is given
AllowedAny(to) == TRUE

\* ALLOWED_RECIPIENTS.has(to)
Allowed(to) == to \in ALLOWED_RECIPIENTS

\* res.status(400).json({ ok: false, error: "Missing messageId or body" })
MissingReply ==
    [status |-> 400, json |-> Obj([ok |-> Bool(FALSE), error |-> Str(sMissingReply)])]

\* res.status(400).json({ ok: false, error: "Missing to or body" })
MissingCompose ==
    [status |-> 400, json |-> Obj([ok |-> Bool(FALSE), error |-> Str(sMissingCompose)])]

\* res.status(404).json({ ok: false, error: "Message not found" })
NotFound ==
    [status |-> 404, json |-> Obj([ok |-> Bool(FALSE), error |-> Str(sNotFound)])]

\* res.status(403).json({ ok: false, error: "Recipient not allowed" })
NotAllowed ==
    [status |-> 403, json |-> Obj([ok |-> Bool(FALSE), error |-> Str(sNotAllowed)])]

\* res.status(202).json({ ok: true })
Accepted == [status |-> 202, json |-> Obj([ok |-> Bool(TRUE)])]

\* res.json({ messages })
Listed(rows) == [status |-> 200, json |-> Obj([messages |-> Arr(rows)])]

\* listMessages(200) in GET /messages
ListLimit == 200

\* a row as listMessages selects it
listRow(row) ==
    [id             |-> row.id,
     channel        |-> row.channel,
     receivedAt     |-> row.received_at,
     fromRaw        |-> row.from_raw,
     fromEmail      |-> row.from_email,
     subject        |-> row.subject,
     rawText        |-> row.raw_text,
     summary        |-> row.summary,
     responseNeeded |-> row.response_needed,
     neededToKnow   |-> row.needed_to_know,
     replyOptions   |-> row.reply_options,
     flags          |-> row.flags]

\* ORDER BY received_at DESC: the orders of the rows Postgres may return,
\* rows of equal received_at coming in any order
Orderings(rows) ==
    {p \in [1..Len(rows) -> 1..Len(rows)] :
        /\ \A i, j \in 1..Len(rows) : i # j => p[i] # p[j]
        /\ \A i, j \in 1..Len(rows) :
             i < j => rows[p[i]].received_at >= rows[p[j]].received_at}

\* a SELECT with LIMIT and no ORDER BY: any rows of the table, in any order
listMessagesUnordered(rows, limit) ==
    {[i \in 1..Min(Len(rows), limit) |-> listRow(rows[p[i]])] :
        p \in {q \in [1..Len(rows) -> 1..Len(rows)] :
                  \A i, j \in 1..Len(rows) : i # j => q[i] # q[j]}}

\* the results listMessages(limit) may return on the rows of the table
listMessages(rows, limit) ==
    {[i \in 1..Min(Len(rows), limit) |-> listRow(rows[p[i]])] : p \in Orderings(rows)}

\* the call sendEmail({ to, subject, text }) of request q, its promise pending
sendEmail(q, to, subject, text) ==
    [q |-> q, to |-> to, subject |-> subject, text |-> text, result |-> "pending"]

\* a caller that reports the outcome of the send to the client
Surfaced(response, outcome) ==
    IF outcome = "failed" THEN ServerError ELSE response

\* .then(log) and .catch(log) of the promise of sendEmail: the outcome is
\* logged and the response sent before stays what it was
Logged(response, outcome) == response

\* a caller that calls sendEmail again when its promise rejects
FailedAndRetried(calls, k) ==
    Append([calls EXCEPT ![k].result = "failed"], [calls[k] EXCEPT !.result = "pending"])

\* the promise of call k rejects and nothing else is called
Failed(calls, k) == [calls EXCEPT ![k].result = "failed"]

\* a reply route that checks the body only
MissingReplyBodyOnly(messageId, text) == ~Truthy(text)

\* if (!messageId || !body)
MissingReplyFields(messageId, text) == ~Truthy(messageId) \/ ~Truthy(text)

\* if (!cleanTo || !body)
MissingComposeFields(cleanTo, text) == ~Truthy(cleanTo) \/ ~Truthy(text)

\* GET /messages arrives: the handler calls listMessages(200), which issues
\* the SELECT.
ListArrive(q) ==
    /\ cpc[q] = "idle"
    /\ basicAuth(chdr[q], env).next
    /\ creq' = [creq EXCEPT ![q] = [route |-> "list", body |-> Undef]]
    /\ cloc' = [cloc EXCEPT ![q] = [NoAppLocals EXCEPT !.queries = 1]]
    /\ cpc' = [cpc EXCEPT ![q] = "awaitList"]
    /\ UNCHANGED <<pc, body, loc, upstream, aiCalls, inserts, dbResult, resp, sent, store,
                   writer, issued, now, cresp, csent, sends, callVars, mem, deployVars>>

\* The SELECT of listMessages returns and the handler answers with the rows.
ListOk(q) ==
    /\ cpc[q] = "awaitList"
    /\ \E rows \in listMessages(store, ListLimit) :
         cresp' = [cresp EXCEPT ![q] = Listed(rows)]
    /\ csent' = [csent EXCEPT ![q] = @ + 1]
    /\ cpc' = [cpc EXCEPT ![q] = "done"]
    /\ UNCHANGED <<pc, body, loc, upstream, aiCalls, inserts, dbResult, resp, sent, store,
                   writer, issued, now, creq, cloc, sends, callVars, mem, deployVars>>

\* The SELECT of listMessages fails and the handler answers 500.
ListFail(q) ==
    /\ cpc[q] = "awaitList"
    /\ cresp' = [cresp EXCEPT ![q] = ServerError]
    /\ csent' = [csent EXCEPT ![q] = @ + 1]
    /\ cpc' = [cpc EXCEPT ![q] = "done"]
    /\ UNCHANGED <<pc, body, loc, upstream, aiCalls, inserts, dbResult, resp, sent, store,
                   writer, issued, now, creq, cloc, sends, callVars, mem, deployVars>>

\* POST /reply arrives with body b: the handler rejects a missing messageId
\* or body, else issues the SELECT of the message.
ReplyWith(q, b) ==
    LET bd        == Or(b, EmptyObj)
        messageId == Get(bd, "messageId")
        text      == Get(bd, "body")
    IN /\ cpc[q] = "idle"
       /\ basicAuth(chdr[q], env).next
       /\ creq' = [creq EXCEPT ![q] = [route |-> "reply", body |-> b]]
       /\ IF MissingReplyFields(messageId, text)
          THEN /\ cresp' = [cresp EXCEPT ![q] = MissingReply]
               /\ csent' = [csent EXCEPT ![q] = @ + 1]
               /\ cloc' = [cloc EXCEPT ![q] = NoAppLocals]
               /\ cpc' = [cpc EXCEPT ![q] = "done"]
          ELSE /\ cloc' = [cloc EXCEPT ![q] = [NoAppLocals EXCEPT !.queries = 1]]
               /\ cpc' = [cpc EXCEPT ![q] = "awaitLookup"]
               /\ UNCHANGED <<cresp, csent>>
       /\ UNCHANGED <<pc, body, loc, upstream, aiCalls, inserts, dbResult, resp, sent, store,
                      writer, issued, now, sends, callVars, mem, deployVars>>

\* The SELECT of POST /reply returns: 404 when there is no such message, 403
\* when the sender of the message is not an allowed recipient, else the
\* handler answers 202 and then calls sendEmail without awaiting it.
ReplyLookupOk(q) ==
    LET bd   == Or(creq[q].body, EmptyObj)
        msg  == lookup(Get(bd, "messageId"))
        addr == Or(Or(Get(msg, "from_email"),
                      extractEmail(Or(Get(msg, "from_raw"), Str(<<>>))).v),
                   Str(<<>>))
        to   == Str(ToLowerCase(Trim(addr.s)))
        subj == IF Truthy(Get(msg, "subject"))
                THEN Str(sRePfx \o ToStr(Get(msg, "subject"))) ELSE Str(sRe)
    IN /\ cpc[q] = "awaitLookup"
       /\ IF ~Truthy(msg)
          THEN /\ cresp' = [cresp EXCEPT ![q] = NotFound]
               /\ csent' = [csent EXCEPT ![q] = @ + 1]
               /\ cpc' = [cpc EXCEPT ![q] = "done"]
               /\ UNCHANGED <<cloc, sends>>
          ELSE /\ cloc' = [cloc EXCEPT ![q].to = to]
               /\ IF ~Truthy(to) \/ ~Allowed(to)
                  THEN /\ cresp' = [cresp EXCEPT ![q] = NotAllowed]
                       /\ csent' = [csent EXCEPT ![q] = @ + 1]
                       /\ cpc' = [cpc EXCEPT ![q] = "done"]
                       /\ UNCHANGED sends
                  ELSE /\ cresp' = [cresp EXCEPT ![q] = Accepted]
                       /\ csent' = [csent EXCEPT ![q] = @ + 1]
                       /\ sends' = Append(sends,
                              sendEmail(q, to, subj, Str(ToStr(Get(bd, "body")))))
                       /\ cpc' = [cpc EXCEPT ![q] = "sending"]
       /\ UNCHANGED <<pc, body, loc, upstream, aiCalls, inserts, dbResult, resp, sent, store,
                      writer, issued, now, creq, callVars, mem, deployVars>>

\* The SELECT of POST /reply fails and the handler answers 500.
ReplyLookupFail(q) ==
    /\ cpc[q] = "awaitLookup"
    /\ cresp' = [cresp EXCEPT ![q] = ServerError]
    /\ csent' = [csent EXCEPT ![q] = @ + 1]
    /\ cpc' = [cpc EXCEPT ![q] = "done"]
    /\ UNCHANGED <<pc, body, loc, upstream, aiCalls, inserts, dbResult, resp, sent, store,
                   writer, issued, now, creq, cloc, sends, callVars, mem, deployVars>>

\* POST /compose arrives with body b: the handler cleans the recipient,
\* rejects a missing recipient or body with 400 and a recipient that is not
\* allowed with 403, cleans the subject, answers 202 and then calls
\* sendEmail without awaiting it.
ComposeWith(q, b) ==
    LET bd      == Or(b, EmptyObj)
        cleanTo == Str(ToLowerCase(Trim(ToStr(Or(Get(bd, "to"), Str(<<>>))))))
        text    == Get(bd, "body")
        trimmed == OptTrim(Get(bd, "subject"))
        cleanSubject ==
            IF Truthy(trimmed.v) THEN Str(Trim(ToStr(Get(bd, "subject"))))
            ELSE Str(sNoSubject)
    IN /\ cpc[q] = "idle"
       /\ basicAuth(chdr[q], env).next
       /\ creq' = [creq EXCEPT ![q] = [route |-> "compose", body |-> b]]
       /\ cloc' = [cloc EXCEPT ![q] = [NoAppLocals EXCEPT !.to = cleanTo]]
       /\ IF MissingComposeFields(cleanTo, text)
          THEN /\ cresp' = [cresp EXCEPT ![q] = MissingCompose]
               /\ csent' = [csent EXCEPT ![q] = @ + 1]
               /\ cpc' = [cpc EXCEPT ![q] = "done"]
               /\ UNCHANGED sends
          ELSE IF ~Allowed(cleanTo)
          THEN /\ cresp' = [cresp EXCEPT ![q] = NotAllowed]
               /\ csent' = [csent EXCEPT ![q] = @ + 1]
               /\ cpc' = [cpc EXCEPT ![q] = "done"]
               /\ UNCHANGED sends
          ELSE IF ~trimmed.ok
          THEN /\ cresp' = [cresp EXCEPT ![q] = ServerError]
               /\ csent' = [csent EXCEPT ![q] = @ + 1]
               /\ cpc' = [cpc EXCEPT ![q] = "done"]
               /\ UNCHANGED sends
          ELSE /\ cresp' = [cresp EXCEPT ![q] = Accepted]
               /\ csent' = [csent EXCEPT ![q] = @ + 1]
               /\ sends' = Append(sends,
                      sendEmail(q, cleanTo, cleanSubject, Str(ToStr(text))))
               /\ cpc' = [cpc EXCEPT ![q] = "sending"]
       /\ UNCHANGED <<pc, body, loc, upstream, aiCalls, inserts, dbResult, resp, sent, store,
                      writer, issued, now, callVars, mem, deployVars>>

\* The promise of sendEmail resolves: SendGrid accepted the mail, which the
\* .then callback logs.
SendOk(q) ==
    /\ cpc[q] = "sending"
    /\ MailerReady(env)
    /\ \E k \in 1..Len(sends) :
         /\ sends[k].q = q
         /\ sends[k].result = "pending"
         /\ sends' = [sends EXCEPT ![k].result = "sent"]
    /\ cresp' = [cresp EXCEPT ![q] = Logged(@, "sent")]
    /\ csent' = [csent EXCEPT ![q] = IF cresp'[q] = cresp[q] THEN @ ELSE @ + 1]
    /\ cpc' = [cpc EXCEPT ![q] = "done"]
    /\ UNCHANGED <<pc, body, loc, upstream, aiCalls, inserts, dbResult, resp, sent, store,
                   writer, issued, now, creq, cloc, callVars, mem, deployVars>>

\* The promise of sendEmail rejects: the API key or the sender address is
\* not configured, or SendGrid refused the mail, which the .catch callback
\* logs.
SendFail(q) ==
    /\ cpc[q] = "sending"
    /\ \E k \in 1..Len(sends) :
         /\ sends[k].q = q
         /\ sends[k].result = "pending"
         /\ sends' = Failed(sends, k)
    /\ cresp' = [cresp EXCEPT ![q] = Logged(@, "failed")]
    /\ csent' = [csent EXCEPT ![q] = IF cresp'[q] = cresp[q] THEN @ ELSE @ + 1]
    /\ cpc' = [cpc EXCEPT ![q] = "done"]
    /\ UNCHANGED <<pc, body, loc, upstream, aiCalls, inserts, dbResult, resp, sent, store,
                   writer, issued, now, creq, cloc, callVars, mem, deployVars>>

(***************************************************************************)
(* The whole server: concurrent ingestion requests and the requests of     *)
(* the app, on a small set of mails.                                       *)
(***************************************************************************)
ConcReq == 1..MaxConc

AppReq == 1..MaxApp

\* the ids crypto.randomUUID() may return to the concurrent requests: two
\* calls may return the same value
ConcUUIDs == {UUID(k) : k \in 1..MaxConc}

\* the mail that concurrent request r carries: every request its own mail,
\* by turns of a sender who is an allowed recipient and of one who is not
ConcMail(r) ==
    Obj([from    |-> IF r % 2 = 1 THEN Str(sJeremy) ELSE Str(sJane),
         subject |-> Str(sPickup \o <<" ">> \o Digits(r)),
         text    |-> IF r % 2 = 1 THEN Str(sBody) ELSE Str(sLate)])

\* the upstream call is rejected or answers the JSON of scenario 1
ConcUpstream == {Reject, Resolve(<<Json(ValidObj)>>)}

\* bodies of POST /reply
ReplyBodies ==
    { Undef,
      Obj([body |-> Str(sOnMyWay)]),
      Obj([messageId |-> UUID(1)]),
      Obj([messageId |-> UUID(1), body |-> Str(<<>>)]),
      Obj([messageId |-> UUID(1), body |-> Num(5)]) }
    \cup {Obj([messageId |-> id, body |-> Str(sOnMyWay)]) : id \in ConcUUIDs}

\* bodies of POST /compose
ComposeBodies ==
    { Undef,
      Obj([to |-> Str(sComposeTo), subject |-> Str(sHello), body |-> Str(sOnMyWay)]),
      Obj([to |-> Str(sJeremyAddr), body |-> Str(sOnMyWay)]),
      Obj([to |-> Str(sJeremyAddr), subject |-> Num(5), body |-> Str(sOnMyWay)]),
      Obj([to |-> Str(sStranger), subject |-> Str(sHello), body |-> Str(sOnMyWay)]),
      Obj([to |-> Str(sStranger), subject |-> Str(sHello)]),
      Obj([to |-> Str(sJeremy), body |-> Str(sOnMyWay)]),
      Obj([to |-> Str(<<" ">>), body |-> Str(sOnMyWay)]),
      Obj([subject |-> Str(sHello), body |-> Str(sOnMyWay)]),
      Obj([to |-> Str(sJeremyAddr)]) }

ConcReceive(r) == Inbound(r, {ConcMail(r)}, ConcUUIDs)

ConcAISettle(r) == Classified(r, ConcUpstream)

PostReply(q) == \E b \in ReplyBodies : ReplyWith(q, b)

PostCompose(q) == \E b \in ComposeBodies : ComposeWith(q, b)

ConcInit ==
    /\ IngestIdle(ConcReq)
    /\ AppIdle({})
    /\ Trusted(ConcReq, {})
    /\ NoCall

ConcNext ==
    \E r \in ConcReq :
        \/ ConcReceive(r)
        \/ ConcAISettle(r)
        \/ DbInsertOk(r)
        \/ DbInsertFail(r)
        \/ Respond(r)

\* concurrent ingestion requests alone
ConcSpec == ConcInit /\ [][ConcNext]_vars

ServerInit ==
    /\ IngestIdle(ConcReq)
    /\ AppIdle(AppReq)
    /\ Trusted(ConcReq, AppReq)
    /\ NoCall

ServerNext ==
    \/ \E r \in ConcReq :
         \/ ConcReceive(r)
         \/ ConcAISettle(r)
         \/ DbInsertOk(r)
         \/ DbInsertFail(r)
         \/ Respond(r)
    \/ \E q \in AppReq :
         \/ ListArrive(q)
         \/ ListOk(q)
         \/ ListFail(q)
         \/ PostReply(q)
         \/ ReplyLookupOk(q)
         \/ ReplyLookupFail(q)
         \/ PostCompose(q)
         \/ SendOk(q)
         \/ SendFail(q)

ServerSpec == ServerInit /\ [][ServerNext]_vars

(***************************************************************************)
(* The server in any of the environments, its requests carrying any of     *)
(* the headers: basicAuth stands before the handler of each route.         *)
(***************************************************************************)
\* POST /email/inbound arrives and basicAuth answers it: next() is not
\* called and the handler does not run.
InboundDenied(r, bodies) ==
    /\ pc[r] = "idle"
    /\ ~basicAuth(hdr[r], env).next
    /\ \E b \in bodies : body' = [body EXCEPT ![r] = b]
    /\ resp' = [resp EXCEPT ![r] = basicAuth(hdr[r], env).resp]
    /\ sent' = [sent EXCEPT ![r] = @ + 1]
    /\ pc' = [pc EXCEPT ![r] = "done"]
    /\ UNCHANGED <<loc, upstream, aiCalls, inserts, dbResult, store, writer, issued, now,
                   appVars, callVars, mem, deployVars>>

\* A request of the app arrives on the route and basicAuth answers it:
\* next() is not called and the handler does not run.
AppDenied(q, route, bodies) ==
    /\ cpc[q] = "idle"
    /\ ~basicAuth(chdr[q], env).next
    /\ \E b \in bodies : creq' = [creq EXCEPT ![q] = [route |-> route, body |-> b]]
    /\ cresp' = [cresp EXCEPT ![q] = basicAuth(chdr[q], env).resp]
    /\ csent' = [csent EXCEPT ![q] = @ + 1]
    /\ cpc' = [cpc EXCEPT ![q] = "done"]
    /\ UNCHANGED <<pc, body, loc, upstream, aiCalls, inserts, dbResult, resp, sent, store,
                   writer, issued, now, cloc, sends, callVars, mem, deployVars>>

\* the server has started in one of the environments and each request
\* that will arrive carries one of the headers
GateInit ==
    /\ IngestIdle(Req)
    /\ AppIdle(AppReq)
    /\ NoCall
    /\ env \in Envs
    /\ hdr \in [Req -> Headers]
    /\ chdr \in [AppReq -> Headers]

GateNext ==
    \/ \E r \in Req :
         \/ InboundDenied(r, {ConcMail(r)})
         \/ ConcReceive(r)
         \/ ConcAISettle(r)
         \/ DbInsertOk(r)
         \/ DbInsertFail(r)
         \/ Respond(r)
    \/ \E q \in AppReq :
         \/ AppDenied(q, "list", {Undef})
         \/ AppDenied(q, "reply", ReplyBodies)
         \/ AppDenied(q, "compose", ComposeBodies)
         \/ ListArrive(q)
         \/ ListOk(q)
         \/ ListFail(q)
         \/ PostReply(q)
         \/ ReplyLookupOk(q)
         \/ ReplyLookupFail(q)
         \/ PostCompose(q)
         \/ SendOk(q)
         \/ SendFail(q)

GateSpec == GateInit /\ [][GateNext]_vars

(***************************************************************************)
(* normalizeParsed called on its own, on a value and then on its own       *)
(* result.                                                                 *)
(***************************************************************************)
\* number of successive calls of the function
MaxCalls == 2

\* a property that the value does not have
Absent == [t |-> "absent"]

\* the object with the properties given, the absent ones left out
MkObj(props) == Obj([k \in {x \in DOMAIN props : props[x] # Absent} |-> props[k]])

SummaryValues == {Absent, Str(sOk), Str(<<>>), Num(5), Null}

ResponseNeededValues == {Absent, Bool(TRUE), Bool(FALSE), Str(sOk), Num(0)}

NeededToKnowValues == {Absent, Arr(<<Str(sNeeded1)>>), Arr(<<>>), Str(sOk), Null}

ReplyOptionsValues ==
    {Absent,
     Obj([boundary |-> Str(sNoted), cooperative |-> Str(sCoop1)]),
     Obj([boundary |-> Str(sOk)]),
     Obj([boundary |-> Str(sOk), cooperative |-> Num(5)]),
     Str(sOk),
     Null}

FlagsValues ==
    {Absent, Arr(<<>>), Arr(<<Flag(sInsult, 4)>>), Arr(<<Str(sInsult)>>), EmptyObj, Null}

\* an answer that has every property the JSON schema of the classifier
\* requires, the five extended ones included
FullObj ==
    Obj([summary          |-> Str(sSummary1),
         responseNeeded   |-> Bool(TRUE),
         neededToKnow     |-> Arr(<<Str(sNeeded1)>>),
         requestedChanges |-> Arr(<<>>),
         dates            |-> Arr(<<>>),
         times            |-> Arr(<<Obj([label |-> Str(sPickup), originalText |-> Str(sNeeded1)])>>),
         locations        |-> Arr(<<>>),
         deadlines        |-> Arr(<<>>),
         replyOptions     |-> Obj([boundary |-> Str(sNoted), cooperative |-> Str(sCoop1)]),
         flags            |-> Arr(<<>>)])

\* the values normalizeParsed is called with: what JSON.parse may return
NormInputs ==
    {Undef, Null, Num(0), Num(5), Str(<<>>), Str(sOk), Bool(TRUE), Bool(FALSE),
     Arr(<<>>), Arr(<<ValidObj>>), EmptyObj, ValidObj, PartialObj, WrongTypedObj, FullObj}
    \cup {MkObj([summary        |-> s,
                 responseNeeded |-> r,
                 neededToKnow   |-> n,
                 replyOptions   |-> o,
                 flags          |-> f]) :
            s \in SummaryValues, r \in ResponseNeededValues, n \in NeededToKnowValues,
            o \in ReplyOptionsValues, f \in FlagsValues}

NormInit ==
    /\ IngestIdle({})
    /\ AppIdle({})
    /\ Trusted({}, {})
    /\ arg \in NormInputs
    /\ out = <<>>

\* normalizeParsed is called, first on the argument, then on the object it
\* returned
Normalize ==
    /\ Len(out) < MaxCalls
    /\ out' = Append(out, normalizeParsed(IF out = <<>> THEN arg ELSE Obj(out[Len(out)])))
    /\ UNCHANGED <<pc, body, loc, upstream, aiCalls, inserts, dbResult, resp, sent, store,
                   writer, issued, now, appVars, arg, mem, deployVars>>

NormSpec == NormInit /\ [][Normalize]_vars

(***************************************************************************)
(* The pure functions of the server called on their own.                   *)
(***************************************************************************)
\* a body text longer than the preview
LongText == Str([i \in 1..(PreviewLen + 1) |-> "x"])

\* the calls buildFallbackMessage({ from, subject, text }, reasonType): the
\* three fields as the handler may read them from a body, and the reason
\* tag omitted, the one of the pipeline, or another one
FallbackInputs ==
    {[fn |-> "buildFallbackMessage", from |-> f, subject |-> s, text |-> t,
      reasonType |-> g] :
        f \in {Str(<<>>), Str(sJane), Num(7)},
        s \in {Str(<<>>), Str(sPickup), Num(5)},
        t \in {Str(<<>>), Str(sBody), LongText, Num(42)},
        g \in {Undef, ReasonTag, Str(sAiUnavailableTag), Str(sNonJson)}}

\* the locals of the handler of POST /email/inbound that received the mail
\* of scenario 1 and drew the id
MailLocals ==
    [NoLocals EXCEPT !.id = UUID(1), !.from = Str(sJane), !.subject = Str(sPickup),
                     !.text = Str(sBody), !.fromEmail = extractEmail(Str(sJane)).v]

\* the objects the pipeline passes to insertMessage: the mail with the
\* normalized answer of the classifier, with the fallback, and, in the
\* server that carries the extended fields, with the answer normalized to
\* ten fields
InsertInputs ==
    {[fn |-> "insertMessage", m |-> Message(MailLocals, normalizeParsed(x), 0)] :
        x \in {ValidObj, PartialObj, WrongTypedObj, FullObj, Null}}
    \cup {[fn |-> "insertMessage",
           m  |-> Message(MailLocals,
                          buildFallbackMessage(Str(sJane), Str(sPickup), Str(sBody),
                                               ReasonTag).v, 0)]}
    \cup {[fn |-> "insertMessage", m |-> Message(MailLocals, normalizeParsedExtended(x), 0)] :
            x \in {ValidObj, FullObj}}

\* number of rows of the tables listMessages is called on
MaxRows == 3

\* the row that the i-th INSERT added at time t
RowAt(i, t) ==
    insertMessage(Message([MailLocals EXCEPT !.id = UUID(i)],
                          normalizeParsed(ValidObj), t), t)

\* the tables of up to MaxRows rows, in insertion order: received_at is
\* NOW() at the INSERT, so it never decreases along the table and two rows
\* may carry the same
Tables ==
    UNION {{[i \in 1..n |-> RowAt(i, ts[i])] :
              ts \in {x \in [1..n -> 0..(MaxRows - 1)] :
                        \A i, j \in 1..n : i < j => x[i] <= x[j]}} :
           n \in 0..MaxRows}

\* the calls listMessages(limit): with a limit below the number of rows,
\* and with the limit of GET /messages
ListInputs ==
    {[fn |-> "listMessages", rows |-> rows, limit |-> l] :
        rows \in Tables, l \in {1, MaxRows - 1, ListLimit}}

\* the calls extractEmail(from): a name with the address in angle brackets,
\* with blanks inside them, a bare address before a bracketed one, addresses
\* in prose, a name alone, nothing, an empty pair of brackets, an unclosed
\* bracket, an address without top-level domain
ExtractInputs ==
    {[fn |-> "extractEmail", str |-> Str(s)] :
        s \in {sJane, sJeremy, sJaneSpaced, sTwoAddr, sProseAddr, sPadded, <<>>,
               sEmptyPair, sUnclosed, sNoTld, sJaneAddr}}

CallInputs == FallbackInputs \cup InsertInputs \cup ListInputs \cup ExtractInputs

CallInit ==
    /\ IngestIdle({})
    /\ AppIdle({})
    /\ Trusted({}, {})
    /\ arg \in CallInputs
    /\ out = <<>>

\* buildFallbackMessage is called with the arguments
CallBuildFallback ==
    /\ arg.fn = "buildFallbackMessage"
    /\ Len(out) < MaxCalls
    /\ out' = Append(out, buildFallbackMessage(arg.from, arg.subject, arg.text,
                                               arg.reasonType))
    /\ UNCHANGED <<pc, body, loc, upstream, aiCalls, inserts, dbResult, resp, sent, store,
                   writer, issued, now, appVars, arg, mem, deployVars>>

\* insertMessage(m) is called on the empty table, and then listMessages(200)
InsertThenList ==
    /\ arg.fn = "insertMessage"
    /\ Len(out) < MaxCalls
    /\ \E rows \in listMessages(<<insertMessage(arg.m, 0)>>, ListLimit) :
         out' = Append(out, rows[1])
    /\ UNCHANGED <<pc, body, loc, upstream, aiCalls, inserts, dbResult, resp, sent, store,
                   writer, issued, now, appVars, arg, mem, deployVars>>

\* listMessages(limit) is called on the table
CallListMessages ==
    /\ arg.fn = "listMessages"
    /\ Len(out) < MaxCalls
    /\ \E rows \in listMessages(arg.rows, arg.limit) : out' = Append(out, rows)
    /\ UNCHANGED <<pc, body, loc, upstream, aiCalls, inserts, dbResult, resp, sent, store,
                   writer, issued, now, appVars, arg, mem, deployVars>>

\* extractEmail(from) is called on the string
CallExtractEmail ==
    /\ arg.fn = "extractEmail"
    /\ Len(out) < MaxCalls
    /\ out' = Append(out, extractEmail(arg.str))
    /\ UNCHANGED <<pc, body, loc, upstream, aiCalls, inserts, dbResult, resp, sent, store,
                   writer, issued, now, appVars, arg, mem, deployVars>>

CallNext ==
    \/ CallBuildFallback
    \/ InsertThenList
    \/ CallListMessages
    \/ CallExtractEmail

CallSpec == CallInit /\ [][CallNext]_vars

(***************************************************************************)
(* Vocabulary of the properties.                                           *)
(***************************************************************************)
\* positions in the store of the rows that the INSERT of request r added
RowsOf(r) == {i \in 1..Len(store) : writer[i] = r}

\* the request has arrived
Arrived(r) == pc[r] # "idle"

\* the body text of the request is missing or the empty string
TextMissing(r) ==
    Get(body[r], "text") = Undef \/ Get(body[r], "text") = Str(<<>>)

\* the upstream call of the request has settled and analyzeWithAI returned
Returned(r) == upstream[r].k \in {"reject", "resolve"} /\ analyzeWithAI(upstream[r]).ok

\* the upstream call of the request has settled and analyzeWithAI threw
Raised(r) == upstream[r].k \in {"reject", "resolve"} /\ ~analyzeWithAI(upstream[r]).ok

\* the response of the request is an acknowledgement { ok: true, ... }
Acked(r) == Get(resp[r].json, "ok") = Bool(TRUE)

\* the normalized fields of a row have the types of the Message schema
Conformant(row) ==
    /\ row.summary.t = "string"
    /\ row.response_needed.t = "boolean"
    /\ row.needed_to_know.t = "array"
    /\ row.reply_options.t = "object"
    /\ Get(row.reply_options, "boundary").t = "string"
    /\ Get(row.reply_options, "cooperative").t = "string"
    /\ row.flags.t = "array"

(***************************************************************************)
(* C1: every message in the store has a string summary, a boolean          *)
(* responseNeeded, a sequence neededToKnow, replyOptions with string       *)
(* boundary and cooperative, and a sequence flags, whatever the            *)
(* classification call returned.                                           *)
(***************************************************************************)
C1_StoredMessagesConformant == \A i \in 1..Len(store) : Conformant(store[i])

\* a message is stored for a request whose classifier returned an object
\* with every field of the wrong type
C1_Witness ==
    \E r \in Req :
        /\ upstream[r] = Resolve(<<Json(WrongTypedObj)>>)
        /\ RowsOf(r) # {}

(***************************************************************************)
(* C2: when the classification call of a request raises and its store      *)
(* write succeeds, exactly one record of the request is persisted, with    *)
(* summary "(AI unavailable) Message received.", responseNeeded = true     *)
(* and flags = [{type: "ai_error", severity: 3}].                          *)
(***************************************************************************)
C2_FallbackPersisted ==
    \A r \in Req :
        (Raised(r) /\ dbResult[r] = "ok") =>
            /\ Cardinality(RowsOf(r)) = 1
            /\ \A i \in RowsOf(r) :
                 /\ store[i].summary = Str(sAIUnavailable)
                 /\ store[i].response_needed = Bool(TRUE)
                 /\ store[i].flags =
                        Arr(<<Obj([type |-> Str(sAiError), severity |-> Num(3)])>>)

\* the upstream call was rejected and the fallback of the request is stored
C2_Witness ==
    \E r \in Req : upstream[r] = Reject /\ dbResult[r] = "ok" /\ pc[r] = "done"

(***************************************************************************)
(* C3: a request whose body text is empty or missing is answered 400,      *)
(* ok: false, the classifier is invoked zero times for it and no record    *)
(* is added to the store.                                                  *)
(***************************************************************************)
C3_EmptyTextRejected ==
    \A r \in Req :
        (Arrived(r) /\ TextMissing(r)) =>
            /\ resp[r].status = 400
            /\ Get(resp[r].json, "ok") = Bool(FALSE)
            /\ aiCalls[r] = 0
            /\ inserts[r] = 0
            /\ RowsOf(r) = {}

\* a request with text "" has been answered
C3_Witness ==
    \E r \in Req :
        /\ pc[r] = "done"
        /\ Get(body[r], "text") = Str(<<>>)
        /\ resp[r].status = 400

(***************************************************************************)
(* C4: a request ends in a hard error (400 or 500, nothing persisted)      *)
(* only when its body text is missing or its store write failed; every     *)
(* request with a text whose store write does not fail is persisted and    *)
(* acknowledged, whatever from, subject and text the webhook carries.      *)
(***************************************************************************)
C4_HardErrorOnlyOnMissingTextOrStoreFailure ==
    \A r \in Req :
        (pc[r] = "done" /\ ~TextMissing(r) /\ dbResult[r] # "error") =>
            /\ Acked(r)
            /\ RowsOf(r) # {}

(***************************************************************************)
(* C5: the response is 200 {ok: true, id} without warning exactly when     *)
(* the classification call returned and the record was stored, 202         *)
(* {ok: true, id, warning} exactly when it raised and the fallback was     *)
(* stored, 400 {ok: false} on a missing text, 500 {ok: false} on every     *)
(* other failure.                                                          *)
(***************************************************************************)
C5_ResponseTellsOutcome ==
    \A r \in Req :
        LET j == resp[r].json
            stored == dbResult[r] = "ok" /\ RowsOf(r) # {}
            full == /\ resp[r].status = 200
                    /\ Get(j, "ok") = Bool(TRUE)
                    /\ Get(j, "id") = loc[r].id
                    /\ Get(j, "warning") = Undef
            degraded == /\ resp[r].status = 202
                        /\ Get(j, "ok") = Bool(TRUE)
                        /\ Get(j, "id") = loc[r].id
                        /\ Get(j, "warning").t = "string"
        IN pc[r] = "done" =>
            /\ full <=> (Returned(r) /\ stored)
            /\ degraded <=> (Raised(r) /\ stored)
            /\ TextMissing(r) => (resp[r].status = 400 /\ Get(j, "ok") = Bool(FALSE))
            /\ (~TextMissing(r) /\ ~stored) =>
                   (resp[r].status = 500 /\ Get(j, "ok") = Bool(FALSE))

\* a request has been answered 202 after its fallback was stored
C5_Witness ==
    \E r \in Req : pc[r] = "done" /\ resp[r].status = 202 /\ Raised(r)

(***************************************************************************)
(* C6: when the store insert of a request fails, on the normal or on the   *)
(* fallback path, the caller gets 500 ok: false and never an ok: true      *)
(* acknowledgement, the insert is issued once and not retried, and no      *)
(* record of the request is in the store.                                  *)
(***************************************************************************)
C6_StoreFailureIsServerError ==
    \A r \in Req :
        dbResult[r] = "error" =>
            /\ ~Acked(r)
            /\ pc[r] = "done" =>
                   (resp[r].status = 500 /\ Get(resp[r].json, "ok") = Bool(FALSE))
            /\ inserts[r] = 1
            /\ RowsOf(r) = {}

\* the insert of a fallback record failed and the request has been answered
C6_Witness ==
    \E r \in Req :
        dbResult[r] = "error" /\ loc[r].path = "fallback" /\ pc[r] = "done"

(***************************************************************************)
(* C7: an ok: true acknowledgement is sent only after the store insert of  *)
(* the request has completed successfully, and its id is the id of the     *)
(* persisted record, so that a reply lookup with that id finds the         *)
(* message of the request.                                                 *)
(***************************************************************************)
C7_AckAfterInsert ==
    \A r \in Req :
        Acked(r) =>
            LET id == Get(resp[r].json, "id")
            IN /\ dbResult[r] = "ok"
               /\ id = loc[r].id
               /\ \E i \in 1..Len(store) : store[i].id = id
               /\ lookup(id) # Undef
               /\ Get(lookup(id), "from_email") = loc[r].fromEmail
               /\ Get(lookup(id), "from_raw") = loc[r].from

\* a request has been acknowledged with status 200
C7_Witness ==
    \E r \in Req : pc[r] = "done" /\ resp[r].status = 200 /\ Acked(r)

(***************************************************************************)
(* C8: every request eventually receives a response, also when the         *)
(* classification call never returns: a hung call is cut off by a timeout  *)
(* and handled as the classification-failed branch.                        *)
(***************************************************************************)
C8_EveryRequestAnswered ==
    \A r \in Req : (pc[r] = "awaitAI") ~> (resp[r] # NoResp)

(***************************************************************************)
(* C9: when the classifier's output text is plain prose that is not JSON,  *)
(* ingestion ends as a full success: the persisted message has the raw     *)
(* text as summary, empty sequence fields and                              *)
(* flags = [{type: "non_json_output", severity: 2}].                       *)
(***************************************************************************)
C9_ProseIsFullSuccess ==
    \A r \in Req :
        (/\ pc[r] = "done"
         /\ upstream[r] = Resolve(<<Prose(sProse)>>)
         /\ dbResult[r] = "ok") =>
            /\ resp[r].status = 200
            /\ \A i \in RowsOf(r) :
                 /\ store[i].summary = Str(sProse)
                 /\ store[i].needed_to_know = Arr(<<>>)
                 /\ store[i].flags =
                        Arr(<<Obj([type |-> Str(sNonJson), severity |-> Num(2)])>>)

(***************************************************************************)
(* C10: when the classifier's output text wraps a JSON object in markdown  *)
(* fences and/or prose, the object is extracted and parsed, and the        *)
(* persisted message carries its fields as a full success, not as an       *)
(* ai_error fallback.                                                      *)
(***************************************************************************)
C10_WrappedJsonIsParsed ==
    \A r \in Req :
        (/\ pc[r] = "done"
         /\ upstream[r].k = "resolve"
         /\ upstream[r].output_text \in WrappedTexts
         /\ dbResult[r] = "ok") =>
            /\ resp[r].status = 200
            /\ \A i \in RowsOf(r) :
                 /\ store[i].summary = Get(ValidObj, "summary")
                 /\ store[i].needed_to_know = Get(ValidObj, "neededToKnow")
                 /\ store[i].reply_options = Get(ValidObj, "replyOptions")
                 /\ store[i].flags = Get(ValidObj, "flags")

(***************************************************************************)
(* Vocabulary of the properties of the app-facing routes.                  *)
(***************************************************************************)
\* positions among the calls of sendEmail of the calls made for request q
SendsOf(q) == {k \in 1..Len(sends) : sends[k].q = q}

\* property k of the body of app request q is absent, null or ""
FieldMissing(q, k) ==
    Get(Or(creq[q].body, EmptyObj), k) \in {Undef, Null, Str(<<>>)}

\* every call of sendEmail went to an allowed address, the one the handler
\* of its request had checked
SendsAreAllowed ==
    \A k \in 1..Len(sends) :
        /\ sends[k].to \in ALLOWED_RECIPIENTS
        /\ sends[k].to = cloc[sends[k].q].to

(***************************************************************************)
(* C11, as the code has it: a reply or compose request that passed the     *)
(* validation of its fields and whose recipient is not in the allow-list   *)
(* is answered 403 and sendEmail is never called for it; every call of     *)
(* sendEmail targets an allow-listed address, the one that was checked.    *)
(***************************************************************************)
C11_NotAllowedIs403AfterValidation ==
    /\ \A q \in DOMAIN cpc :
         (/\ cloc[q].to # Undef
          /\ cloc[q].to \notin ALLOWED_RECIPIENTS
          /\ cresp[q].status # 400) =>
              /\ cresp[q] = NotAllowed
              /\ SendsOf(q) = {}
    /\ SendsAreAllowed

\* a reply to the stored mail of a sender who is not allow-listed has been
\* refused
C11_Witness ==
    \E q \in DOMAIN cpc :
        /\ creq[q].route = "reply"
        /\ cloc[q].to = Str(<<"j","a","n","e","@","x",".","c","o","m">>)
        /\ cresp[q].status = 403

(***************************************************************************)
(* C11, as stated: a reply or compose request whose recipient address is   *)
(* not in the allow-list is answered 403 and sendEmail is never called     *)
(* for it; every call of sendEmail targets an allow-listed address, the    *)
(* one that was checked.                                                   *)
(***************************************************************************)
C11_NotAllowedIsAlways403 ==
    /\ \A q \in DOMAIN cpc :
         (/\ cloc[q].to # Undef
          /\ Truthy(cloc[q].to)
          /\ cloc[q].to \notin ALLOWED_RECIPIENTS) =>
              /\ cresp[q].status = 403
              /\ SendsOf(q) = {}
    /\ SendsAreAllowed

(***************************************************************************)
(* C12: for every call of sendEmail, the caller of its request has been    *)
(* answered 202 {ok: true} before the send completes, and holds that same  *)
(* response while the send is pending, after it succeeded and after it     *)
(* failed.                                                                 *)
(***************************************************************************)
C12_AckBeforeSendAndUnchanged ==
    \A k \in 1..Len(sends) : cresp[sends[k].q] = Accepted

\* the send of an acknowledged request has failed
C12_Witness ==
    \E k \in 1..Len(sends) :
        /\ sends[k].result = "failed"
        /\ cpc[sends[k].q] = "done"
        /\ cresp[sends[k].q].status = 202

(***************************************************************************)
(* C13: a reply or compose request causes at most one call of sendEmail,   *)
(* also after the call has failed, and requests of other routes none.      *)
(***************************************************************************)
C13_AtMostOneSend ==
    \A q \in DOMAIN cpc :
        /\ Cardinality(SendsOf(q)) <= 1
        /\ creq[q].route \notin {"reply", "compose"} => SendsOf(q) = {}

\* the only send of a compose request has failed and the handler is done
C13_Witness ==
    \E q \in DOMAIN cpc :
        /\ creq[q].route = "compose"
        /\ cpc[q] = "done"
        /\ \E k \in SendsOf(q) : sends[k].result = "failed"

(***************************************************************************)
(* C14: a reply request without messageId or body, and a compose request   *)
(* without recipient or body, is answered 400 ok: false in the step in     *)
(* which it arrives; the handler calls sendEmail for it never and issues   *)
(* no query to the store.                                                  *)
(***************************************************************************)
C14_MissingFieldsRejected ==
    \A q \in DOMAIN cpc :
        (\/ /\ creq[q].route = "reply"
            /\ FieldMissing(q, "messageId") \/ FieldMissing(q, "body")
         \/ /\ creq[q].route = "compose"
            /\ FieldMissing(q, "to") \/ FieldMissing(q, "body")) =>
              /\ cresp[q].status = 400
              /\ Get(cresp[q].json, "ok") = Bool(FALSE)
              /\ SendsOf(q) = {}
              /\ cloc[q].queries = 0
              /\ cpc[q] = "done"

\* a reply request that carries a body and no messageId has been answered
C14_Witness ==
    \E q \in DOMAIN cpc :
        /\ creq[q].route = "reply"
        /\ Get(creq[q].body, "messageId") = Undef
        /\ Get(creq[q].body, "body") = Str(sOnMyWay)
        /\ cresp[q].status = 400

(***************************************************************************)
(* C15: an ingestion request issues at most one INSERT, and exactly one,   *)
(* which added exactly one row, when it is acknowledged ok: true; no step  *)
(* of any route (ingest, list, reply, compose) removes a row of the store  *)
(* or changes a field of it.                                               *)
(***************************************************************************)
C15_InsertOnceAndNeverChanged ==
    /\ [](\A r \in DOMAIN pc :
            /\ inserts[r] <= 1
            /\ Acked(r) => (inserts[r] = 1 /\ Cardinality(RowsOf(r)) = 1))
    /\ [][/\ Len(store') >= Len(store)
          /\ \A i \in 1..Len(store) : store'[i] = store[i]]_vars

\* two messages are stored and a reply to one of them has been accepted
C15_Witness ==
    /\ Len(store) = 2
    /\ \E q \in DOMAIN cpc :
         creq[q].route = "reply" /\ cpc[q] = "done" /\ cresp[q] = Accepted

(***************************************************************************)
(* C16: no two messages in the store share an id, under any interleaving   *)
(* of the ingestion requests.                                              *)
(***************************************************************************)
C16_UniqueIds ==
    \A i, j \in 1..Len(store) : i # j => store[i].id # store[j].id

\* two requests drew the same id: the message of one is stored and the
\* INSERT of the other was refused
C16_Witness ==
    \E r1, r2 \in DOMAIN pc :
        /\ r1 # r2
        /\ loc[r1].id = loc[r2].id
        /\ RowsOf(r1) # {}
        /\ dbResult[r2] = "error"

(***************************************************************************)
(* C17: when all N concurrent ingestion requests carried a text and the    *)
(* store write of each succeeded, the store holds exactly N records, one   *)
(* per request, each with the id, from, subject and text of its own        *)
(* request and the outcome of its own classification call.                 *)
(***************************************************************************)
C17_OneOwnRecordPerRequest ==
    (\A r \in DOMAIN pc : pc[r] = "done" /\ ~TextMissing(r) /\ dbResult[r] = "ok") =>
        /\ Len(store) = Cardinality(DOMAIN pc)
        /\ \A r \in DOMAIN pc :
             LET bd      == Or(body[r], EmptyObj)
                 from    == Or(Get(bd, "from"), Str(<<>>))
                 subject == Or(Get(bd, "subject"), Str(<<>>))
                 text    == Or(Get(bd, "text"), Str(<<>>))
                 answer  == analyzeWithAI(upstream[r])
             IN /\ Cardinality(RowsOf(r)) = 1
                /\ \A i \in RowsOf(r) :
                     /\ store[i].id = loc[r].id
                     /\ store[i].from_raw = from
                     /\ store[i].subject = subject
                     /\ store[i].raw_text = text
                     /\ answer.ok =>
                          /\ store[i].summary = Get(answer.v, "summary")
                          /\ store[i].needed_to_know = Get(answer.v, "neededToKnow")
                          /\ store[i].flags = Get(answer.v, "flags")
                     /\ ~answer.ok =>
                          /\ store[i].summary = Str(sAIUnavailable)
                          /\ store[i].needed_to_know.a[2] = Str(sFromPfx \o from.s)
                          /\ store[i].needed_to_know.a[3] = Str(sPreviewPfx \o text.s)

\* two requests with different mails, one classified and one not, have both
\* been stored and answered
C17_Witness ==
    /\ \A r \in DOMAIN pc : pc[r] = "done" /\ dbResult[r] = "ok"
    /\ \E r1, r2 \in DOMAIN pc :
         /\ body[r1] # body[r2]
         /\ Returned(r1)
         /\ Raised(r2)

(***************************************************************************)
(* C18: every element of the flags of every message in the store is an     *)
(* object {type: string, severity: integer in 1..5}, whatever the          *)
(* classifier returned.                                                    *)
(***************************************************************************)
C18_FlagElementsConformant ==
    \A i \in 1..Len(store) :
        \A k \in 1..Len(store[i].flags.a) :
            LET f == store[i].flags.a[k]
            IN /\ f.t = "object"
               /\ Get(f, "type").t = "string"
               /\ Get(f, "severity").t = "number"
               /\ Get(f, "severity").n \in 1..5

\* the five required fields of a record are present, not null and of the
\* type the defaulting policy accepts
ConformantFields(rec) ==
    /\ {"summary", "responseNeeded", "neededToKnow", "replyOptions", "flags"}
           \subseteq DOMAIN rec
    /\ rec.summary.t = "string"
    /\ rec.responseNeeded.t = "boolean"
    /\ rec.neededToKnow.t = "array"
    /\ rec.replyOptions.t = "object"
    /\ Get(rec.replyOptions, "boundary").t = "string"
    /\ Get(rec.replyOptions, "cooperative").t = "string"
    /\ rec.flags.t = "array"

(***************************************************************************)
(* C19: for every input (null, undefined, a primitive, an array, {}, an    *)
(* object with fields missing or of the wrong type) normalizeParsed        *)
(* returns a record in which summary is a string, responseNeeded a         *)
(* boolean, neededToKnow a sequence, replyOptions an object with string    *)
(* boundary and cooperative, and flags a sequence: all present, none null. *)
(***************************************************************************)
C19_NormalizeTotalAndConformant ==
    \A k \in 1..Len(out) : ConformantFields(out[k])

\* normalizeParsed has returned on the object whose every field has the
\* wrong type
C19_Witness == arg = WrongTypedObj /\ Len(out) >= 1

(***************************************************************************)
(* C20: normalizeParsed is idempotent: called on a record that is already  *)
(* conformant it returns a record equal to it field for field, and called  *)
(* on its own result it returns that result.                               *)
(***************************************************************************)
C20_NormalizeIdempotent ==
    /\ Len(out) >= 2 => out[2] = out[1]
    /\ (Len(out) >= 1 /\ arg.t = "object" /\ ConformantFields(arg.o)) => out[1] = arg.o

C22_RoundTrip ==
    arg.fn = "insertMessage" =>
        \A k \in 1..Len(out) :
            \A f \in DOMAIN arg.m \ {"id", "receivedAt"} :
                /\ f \in DOMAIN out[k]
                /\ out[k][f] = arg.m[f]

\* the position in the table of a listed message: its rank of insertion
InsertionRank(msg) == CHOOSE i \in 1..Len(arg.rows) : arg.rows[i].id = msg.id

(***************************************************************************)
(* C23: listMessages returns the messages in descending order of           *)
(* receivedAt, and messages of equal receivedAt in an order determined by  *)
(* their order of insertion: always the later inserted first or always     *)
(* the earlier inserted first, and the same at every call on the same      *)
(* table.                                                                  *)
(***************************************************************************)
C23_DescendingTiesByInsertion ==
    arg.fn = "listMessages" =>
        /\ \A k \in 1..Len(out) : \A i, j \in 1..Len(out[k]) :
               i < j => out[k][i].receivedAt >= out[k][j].receivedAt
        /\ \/ \A k \in 1..Len(out) : \A i, j \in 1..Len(out[k]) :
                 (i < j /\ out[k][i].receivedAt = out[k][j].receivedAt)
                     => InsertionRank(out[k][i]) > InsertionRank(out[k][j])
           \/ \A k \in 1..Len(out) : \A i, j \in 1..Len(out[k]) :
                 (i < j /\ out[k][i].receivedAt = out[k][j].receivedAt)
                     => InsertionRank(out[k][i]) < InsertionRank(out[k][j])
        /\ \A k, l \in 1..Len(out) : out[k] = out[l]

(***************************************************************************)
(* C24: a listing holds at most limit messages, 200 for GET /messages:     *)
(* all the messages when the table holds no more than that, else the       *)
(* limit, and no message left out is more recent than a listed one.        *)
(***************************************************************************)
C24_MostRecentUpToLimit ==
    arg.fn = "listMessages" =>
        \A k \in 1..Len(out) :
            LET listed == {out[k][i].id : i \in 1..Len(out[k])}
            IN /\ Len(out[k]) <= arg.limit
               /\ Cardinality(listed) = Len(out[k])
               /\ listed \subseteq {arg.rows[i].id : i \in 1..Len(arg.rows)}
               /\ Len(arg.rows) <= arg.limit => Len(out[k]) = Len(arg.rows)
               /\ Len(arg.rows) > arg.limit => Len(out[k]) = arg.limit
               /\ \A i \in 1..Len(arg.rows) :
                     arg.rows[i].id \notin listed =>
                         \A j \in 1..Len(out[k]) :
                             arg.rows[i].received_at <= out[k][j].receivedAt

\* listMessages has returned on a table that holds more rows than the limit
\* and on which the rows left out are older than one listed
C24_Witness ==
    /\ arg.fn = "listMessages"
    /\ Len(arg.rows) > arg.limit
    /\ Len(out) >= 1
    /\ \E i \in 1..Len(arg.rows) : \E j \in 1..Len(out[1]) :
          arg.rows[i].received_at < out[1][j].receivedAt

\* the pairs of angle brackets of s with some text between them that holds
\* no ">"
BracketPairs(s) ==
    {p \in (1..Len(s)) \X (1..Len(s)) :
        /\ s[p[1]] = "<"
        /\ s[p[2]] = ">"
        /\ p[1] + 1 < p[2]
        /\ \A q \in (p[1] + 1)..(p[2] - 1) : s[q] # ">"}

\* the stretches of s that read local@domain.tld: a local part of letters,
\* digits and . _ % + -, a domain of letters, digits and . -, a top-level
\* domain of two letters or more
EmailTokens(s) ==
    {p \in (1..Len(s)) \X (1..Len(s)) :
        \E a \in {x \in 1..Len(s) : s[x] = "@"} :
        \E d \in {x \in 1..Len(s) : s[x] = "."} :
            /\ p[1] < a
            /\ a + 1 < d
            /\ d + 2 <= p[2]
            /\ \A q \in p[1]..(a - 1) : s[q] \in LocalChar
            /\ \A q \in (a + 1)..(d - 1) : s[q] \in DomainChar
            /\ \A q \in (d + 1)..p[2] : s[q] \in Letter}

\* the address that the precedence gives for s: the text of the first pair
\* of brackets, trimmed; else the first token, at its longest; else s, trimmed
AddressOf(s) ==
    IF BracketPairs(s) # {}
    THEN LET p == CHOOSE x \in BracketPairs(s) : \A y \in BracketPairs(s) : x[1] <= y[1]
         IN Trim(SubSeq(s, p[1] + 1, p[2] - 1))
    ELSE IF EmailTokens(s) # {}
    THEN LET p == CHOOSE x \in EmailTokens(s) :
                      \A y \in EmailTokens(s) :
                          x[1] < y[1] \/ (x[1] = y[1] /\ x[2] >= y[2])
         IN SubSeq(s, p[1], p[2])
    ELSE Trim(s)

(***************************************************************************)
(* C25: the address derived from the raw from field is the text inside     *)
(* the first pair of angle brackets, trimmed, if there is one; else the    *)
(* first email-like token of the string; else the raw string, trimmed.     *)
(* "Jane <jane@x.com>" gives "jane@x.com".                                 *)
(***************************************************************************)
C25_ExtractEmailPrecedence ==
    arg.fn = "extractEmail" =>
        \A k \in 1..Len(out) :
            /\ out[k] = Ok(Str(AddressOf(arg.str.s)))
            /\ arg.str = Str(sJane) => out[k] = Ok(Str(sJaneAddr))
            /\ arg.str = Str(sTwoAddr) => out[k] = Ok(Str(<<"j","e","r","e","m","y","@","y",".","o","r","g">>))
            /\ arg.str \in {Str(sProseAddr), Str(sEmptyPair), Str(sUnclosed)}
                   => out[k] = Ok(Str(sJaneAddr))

\* extractEmail has returned on a string that holds a bare address and then
\* another address in angle brackets
C25_Witness ==
    /\ arg = [fn |-> "extractEmail", str |-> Str(sTwoAddr)]
    /\ Len(out) >= 1

\* the optional extended fields of a Message
ExtendedFields == {"requestedChanges", "dates", "times", "locations", "deadlines"}

(***************************************************************************)
(* C26: every record that normalizeParsed returns has requestedChanges,    *)
(* dates, times, locations and deadlines, each a sequence, the empty one   *)
(* when the classifier supplied no sequence for it.                        *)
(***************************************************************************)
C26_ExtendedFieldsPresent ==
    \A k \in 1..Len(out) :
        \A f \in ExtendedFields :
            /\ f \in DOMAIN out[k]
            /\ out[k][f].t = "array"
            /\ ~IsArray(Get(arg, f)) => out[k][f] = Arr(<<>>)

(***************************************************************************)
(* C27: in every persisted message replyOptions has a string boundary and  *)
(* a string cooperative.  When the replyOptions of the classifier is       *)
(* absent, or its boundary or its cooperative is not a string, the         *)
(* persisted one is the default {boundary: "Noted.", cooperative: "Thanks  *)
(* for the update."}, whose texts are not empty; otherwise it is the       *)
(* replyOptions of the classifier.                                         *)
(***************************************************************************)
C27_ReplyOptionsPopulated ==
    \A i \in 1..Len(store) :
        LET r  == writer[i]
            ro == Get(analyzeWithAI(upstream[r]).v, "replyOptions")
            supplied == /\ ro.t = "object"
                        /\ Get(ro, "boundary").t = "string"
                        /\ Get(ro, "cooperative").t = "string"
        IN /\ Get(store[i].reply_options, "boundary").t = "string"
           /\ Get(store[i].reply_options, "cooperative").t = "string"
           /\ (Returned(r) /\ supplied) => store[i].reply_options = ro
           /\ (Returned(r) /\ ~supplied) =>
                  /\ store[i].reply_options =
                         Obj([boundary |-> Str(sNoted), cooperative |-> Str(sThanks)])
                  /\ Len(sNoted) > 0
                  /\ Len(sThanks) > 0

\* a message is stored whose classifier answered a replyOptions with a
\* boundary and no cooperative, and it carries the default
C27_Witness ==
    \E i \in 1..Len(store) :
        /\ upstream[writer[i]] = Resolve(<<Json(WrongTypedObj)>>)
        /\ store[i].reply_options = DefaultReplyOptions

(***************************************************************************)
(* C28: when the flags of the classifier result is a sequence,             *)
(* normalizeParsed passes it through unchanged; when it is not, the        *)
(* default depends on the class of the failure: [] when an object was      *)
(* parsed but has the wrong shape, [{type: "non_json_output", severity:    *)
(* 2}] when nothing was parsed.                                            *)
(***************************************************************************)
C28_FlagsDefaultByFailureClass ==
    Len(out) >= 1 =>
        LET flags == Get(arg, "flags")
        IN /\ IsArray(flags) => out[1].flags = flags
           /\ (~IsArray(flags) /\ arg.t = "object") => out[1].flags = Arr(<<>>)
           /\ (~IsArray(flags) /\ arg.t \in {"undefined", "null"})
                  => out[1].flags = Arr(<<Flag(sNonJson, 2)>>)

(***************************************************************************)
(* C29: id, channel, fromRaw, fromEmail, subject and rawText of a          *)
(* persisted message are determined by the inbound request and the         *)
(* generated id alone: they are the id drawn for the request, "email",     *)
(* and the from, the address extracted from it, the subject and the text   *)
(* of the request body, whatever the classifier returned, keys named id    *)
(* or fromEmail in its answer included; so the address that a reply to     *)
(* the message is sent to does not depend on the classifier.               *)
(***************************************************************************)
C29_IdentityFromRequestOnly ==
    \A i \in 1..Len(store) :
        LET r       == writer[i]
            bd      == Or(body[r], EmptyObj)
            from    == Or(Get(bd, "from"), Str(<<>>))
            subject == Or(Get(bd, "subject"), Str(<<>>))
            text    == Or(Get(bd, "text"), Str(<<>>))
        IN /\ store[i].id = loc[r].id
           /\ store[i].id \in issued
           /\ store[i].channel = Str(sEmail)
           /\ store[i].from_raw = PgText(from)
           /\ store[i].from_email = PgText(extractEmail(from).v)
           /\ store[i].subject = PgText(subject)
           /\ store[i].raw_text = PgText(text)
           /\ lookup(loc[r].id) = Obj([from_raw   |-> PgText(from),
                                       from_email |-> PgText(extractEmail(from).v),
                                       subject    |-> PgText(subject)])

\* a message is stored whose classifier answered with keys id, fromRaw,
\* fromEmail, subject, rawText and channel of its own
C29_Witness ==
    \E i \in 1..Len(store) :
        /\ upstream[writer[i]] = Resolve(<<Json(HostileObj)>>)
        /\ store[i].from_email = Str(sJaneAddr)

\* what a response tells its status class to be: 2 for 2xx, 4 for 4xx, 5 for 5xx
StatusClass(response) == response.status \div 100

(***************************************************************************)
(* C30: the server variants implement the same ingestion pipeline: given   *)
(* the same request and the same outcome of the classification call, the   *)
(* in-memory server and the server with the database both reject, or both  *)
(* store a record of the request, or both store nothing, and when the      *)
(* store write of the latter did not fail they answer with the same        *)
(* status class.                                                           *)
(***************************************************************************)
C30_VariantsAgree ==
    \A r \in Req :
        (pc[r] = "done" /\ mem.pc[r] = "done") =>
            /\ resp[r] = BadRequest <=> mem.resp[r] = BadRequest
            /\ inserts[r] = 1 <=> (\E i \in 1..Len(mem.by) : mem.by[i] = r)
            /\ dbResult[r] # "error" => StatusClass(resp[r]) = StatusClass(mem.resp[r])

\* the messages of the answer to list request q, first listed first
ListedBy(q) == Get(cresp[q].json, "messages").a

\* the position in the store of a listed message: its rank of insertion
StoreRank(msg) == CHOOSE i \in 1..Len(store) : store[i].id = msg.id

(***************************************************************************)
(* C31: the received_at of a row is the clock of the store when the row    *)
(* is inserted, not the receivedAt that the handler computed; and of two   *)
(* messages of a listing, the one inserted later is listed first,          *)
(* whichever request arrived first.                                        *)
(***************************************************************************)
C31_LaterInsertListedFirst ==
    /\ [][\A i \in 1..Len(store') :
            i > Len(store) => store'[i].received_at = now']_vars
    /\ [](\A q \in DOMAIN cpc :
            (creq[q].route = "list" /\ cresp[q].status = 200) =>
                \A i, j \in 1..Len(ListedBy(q)) :
                    StoreRank(ListedBy(q)[i]) > StoreRank(ListedBy(q)[j]) => i < j)

DerivedRecipient(row) ==
    LET addr == IF Truthy(row.from_email) THEN row.from_email
                ELSE IF row.from_raw.t = "string" THEN extractEmail(row.from_raw).v
                ELSE Str(<<>>)
    IN Str(ToLowerCase(Trim(addr.s)))

\* the rows of the store whose id is the messageId of reply request q
MatchesOf(q) ==
    {i \in 1..Len(store) : store[i].id = Get(Or(creq[q].body, EmptyObj), "messageId")}

(***************************************************************************)
(* C34: a reply request whose messageId matches no stored message when     *)
(* the lookup returns is answered 404 and sendEmail is not called for it;  *)
(* every send of a reply goes to the address derived from a stored         *)
(* message whose id is the messageId of the request.                       *)
(***************************************************************************)
C34_ReplyOnlyToStoredMessage ==
    /\ [][\A q \in DOMAIN cpc :
            (/\ cpc[q] = "awaitLookup"
             /\ cpc'[q] # "awaitLookup"
             /\ cresp'[q] # ServerError
             /\ MatchesOf(q) = {}) =>
                 /\ cresp'[q] = NotFound
                 /\ cpc'[q] = "done"
                 /\ sends' = sends]_vars
    /\ [](\A q \in DOMAIN cpc :
            /\ cresp[q] = NotFound => SendsOf(q) = {}
            /\ creq[q].route = "reply" =>
                 \A k \in SendsOf(q) :
                     \E i \in MatchesOf(q) : sends[k].to = DerivedRecipient(store[i]))

\* a reply that named a message before it was stored has been answered
\* 404 and nothing was sent for it; the message is in the store since
C34_Witness ==
    \E q \in DOMAIN cpc :
        /\ creq[q].route = "reply"
        /\ cresp[q] = NotFound
        /\ SendsOf(q) = {}
        /\ \E i \in MatchesOf(q) : DerivedRecipient(store[i]) = Str(sJeremyAddr)

\* the server credentials are unset, or the header is missing, is not of
\* the Basic scheme, or does not carry the credentials of the server
Unauthorized(h, e) ==
    \/ e.INBOUND_USER = Str(<<>>)
    \/ e.INBOUND_PASS = Str(<<>>)
    \/ h = Undef
    \/ ~StartsWith(h.s, sBasic)
    \/ Base64Decode(SubSeq(h.s, Len(sBasic) + 1, Len(h.s)))
           # e.INBOUND_USER.s \o <<":">> \o e.INBOUND_PASS.s

\* the status that answers a request that is not authenticated
RefusalStatus(e) ==
    IF e.INBOUND_USER = Str(<<>>) \/ e.INBOUND_PASS = Str(<<>>) THEN 500 ELSE 401

(***************************************************************************)
(* C33: a request to /email/inbound, /messages, /reply or /compose that    *)
(* fails basic authentication is answered 401, or 500 when the server      *)
(* credentials are unset, in the step in which it arrives, and has no      *)
(* effect: the classifier is not called, no query is issued to the store,  *)
(* no row is written and sendEmail is not called for it.                   *)
(***************************************************************************)
C33_UnauthenticatedHasNoEffect ==
    /\ \A r \in DOMAIN pc :
         (Arrived(r) /\ Unauthorized(hdr[r], env)) =>
             /\ pc[r] = "done"
             /\ resp[r].status = RefusalStatus(env)
             /\ Get(resp[r].json, "ok") = Bool(FALSE)
             /\ aiCalls[r] = 0
             /\ inserts[r] = 0
             /\ RowsOf(r) = {}
             /\ loc[r] = NoLocals
    /\ \A q \in DOMAIN cpc :
         (cpc[q] # "idle" /\ Unauthorized(chdr[q], env)) =>
             /\ cpc[q] = "done"
             /\ cresp[q].status = RefusalStatus(env)
             /\ Get(cresp[q].json, "ok") = Bool(FALSE)
             /\ cloc[q] = NoAppLocals
             /\ SendsOf(q) = {}

\* a mail sent with a wrong password and a well-formed reply sent without
\* header have both been answered 401
C33_Witness ==
    /\ \E r \in DOMAIN pc :
         /\ hdr[r] = Str(sBasic \o sCredWrongPass)
         /\ body[r] = ConcMail(r)
         /\ resp[r] = InvalidAuth
    /\ \E q \in DOMAIN cpc :
         /\ chdr[q] = Undef
         /\ creq[q].route = "reply"
         /\ ~FieldMissing(q, "messageId")
         /\ ~FieldMissing(q, "body")
         /\ cresp[q] = MissingAuth

\* the outbound mail provider is not configured: the API key or the sender
\* address is missing
ProviderMissing(e) == e.SENDGRID_API_KEY = Str(<<>>) \/ e.MAIL_FROM = Str(<<>>)

\* app request q is a reply to a stored message of an allow-listed sender,
\* or a well-formed compose to an allow-listed recipient, and the handler
\* has got past its checks
ToAllowedRecipient(q) ==
    /\ cpc[q] \in {"sending", "done"}
    /\ ~Unauthorized(chdr[q], env)
    /\ cloc[q].to \in ALLOWED_RECIPIENTS
    /\ \/ creq[q].route = "reply"
       \/ /\ creq[q].route = "compose"
          /\ Truthy(Get(creq[q].body, "body"))
          /\ Get(creq[q].body, "subject").t \in {"undefined", "null", "string"}

(***************************************************************************)
(* C35: when the API key or the sender address of the outbound mail        *)
(* provider is missing, a reply or compose request to an allow-listed      *)
(* recipient is answered 202 ok: true all the same, no mail is sent for    *)
(* it, and the response stays the acknowledgement once the send has        *)
(* failed: the failure is logged and not reported.                         *)
(***************************************************************************)
C35_UnconfiguredProviderStillAcked ==
    ProviderMissing(env) =>
        /\ \A k \in 1..Len(sends) : sends[k].result # "sent"
        /\ \A q \in DOMAIN cpc :
             ToAllowedRecipient(q) =>
                 /\ cresp[q] = Accepted
                 /\ csent[q] = 1
                 /\ Cardinality(SendsOf(q)) = 1
                 /\ cpc[q] = "done" => \A k \in SendsOf(q) : sends[k].result = "failed"

\* without API key, a compose to an allow-listed address was answered 202
\* and its send has failed
C35_Witness ==
    /\ env.SENDGRID_API_KEY = Str(<<>>)
    /\ \E q \in DOMAIN cpc :
         /\ creq[q].route = "compose"
         /\ cpc[q] = "done"
         /\ cresp[q] = Accepted
         /\ \E k \in SendsOf(q) : sends[k].result = "failed" /\ sends[k].to = Str(sJeremyAddr)
====
